---- MODULE Spec2Model ----
(***************************************************************************)
(* speak2reel: the transcript chunker of podcast_to_reels/scene_splitter.py *)
(* (split_transcript_into_scenes) as a state machine.  A text is a          *)
(* sequence of one-character strings, so that strip(), split() and          *)
(* " ".join() are computed character by character.  Times are whole time    *)
(* units (the code only compares, copies and tests them against 0).         *)
(***************************************************************************)
EXTENDS Integers, Sequences, FiniteSets, TLC

VARIABLES pc, transcript_data, words_per_chunk, source_language,
          segment_index, scenes, current_chunk_text,
          current_chunk_word_count, chunk_start_time, chunk_end_time,
          prompt_calls, result, calls_made, previous,
          srt_pc, srt_transcript_data, srt_i, srt_content, srt_io,
          srt_file, srt_result,
          reel_pc, scenes_data, images_dir, image_i, generated_image_count,
          audio_exists, video_duration, compose_i, image_clips,
          final_duration, all_video_clips, subtitles_config, final_video,
          output_video, compose_raised, compose_result,
          image_pc, api_key, prompt_arg, attempt, responses, image_file,
          image_result,
          pipeline_pc, args_subtitles, original_transcript_data,
          detected_language, translate_i, translate_results,
          translated_segments, translated_transcript_data, sub_config,
          stored_project, submit_pc, submitted_project, task_pc,
          video_project, task_outcome, task_exception, update_pc,
          settings_project, request_data, updates_made

\* split_transcript_into_scenes of podcast_to_reels/scene_splitter.py
chunker_vars == <<pc, transcript_data, words_per_chunk, source_language,
                  segment_index, scenes, current_chunk_text,
                  current_chunk_word_count, chunk_start_time,
                  chunk_end_time, prompt_calls, result, calls_made,
                  previous>>

\* generate_srt_from_transcript of podcast_to_reels/video_composer.py
srt_vars == <<srt_pc, srt_transcript_data, srt_i, srt_content, srt_io,
              srt_file, srt_result>>

\* the image stage of scripts/run_pipeline.py and compose_video of
\* podcast_to_reels/video_composer.py
reel_vars == <<reel_pc, scenes_data, images_dir, image_i,
               generated_image_count, audio_exists, video_duration,
               compose_i, image_clips, final_duration, all_video_clips,
               subtitles_config, final_video, output_video, compose_raised,
               compose_result>>

\* generate_image_from_prompt of podcast_to_reels/image_generator.py
image_vars == <<image_pc, api_key, prompt_arg, attempt, responses, image_file,
                image_result>>

\* the translation stage and the subtitle configuration of main() of
\* scripts/run_pipeline.py
pipeline_vars == <<pipeline_pc, args_subtitles, original_transcript_data,
                   detected_language, translate_i, translate_results,
                   translated_segments, translated_transcript_data,
                   sub_config>>

\* a VideoProject of webapp/jobs/models.py: its row in the database, and
\* the copies of it held by SubmitVideoJobView and UpdateProjectSettingsView
\* of webapp/api/views.py and by process_video_pipeline_task of
\* webapp/api/tasks.py
job_vars == <<stored_project, submit_pc, submitted_project, task_pc,
              video_project, task_outcome, task_exception, update_pc,
              settings_project, request_data, updates_made>>

vars == <<pc, transcript_data, words_per_chunk, source_language,
          segment_index, scenes, current_chunk_text,
          current_chunk_word_count, chunk_start_time, chunk_end_time,
          prompt_calls, result, calls_made, previous, srt_vars, reel_vars,
          image_vars, pipeline_vars, job_vars>>

(***************************************************************************)
(* Bounds of the model.                                                    *)
(***************************************************************************)
\* longest transcript, in segments, of a single call
MaxSegs == 3
\* longest transcript, in segments, handed to generate_srt_from_transcript
MaxSrtSegs == 3
\* longest scene list handed to the image stage and to compose_video
MaxScenes == 2
\* longest transcript, in segments, of a call in a session of several calls
MaxSessionSegs == 2
\* number of calls in a session
MaxCalls == 3
\* longest transcript, in segments, handed to the translation stage
MaxPipelineSegs == 2
\* number of requests to UpdateProjectSettingsView for a project
MaxUpdates == 2

(***************************************************************************)
(* Python values.                                                          *)
(***************************************************************************)
\* segment["text"] = None: no Python string is this sequence
NoneText == <<"None">>
\* the value None returned by generate_image_prompt_with_openai
NonePrompt == "None"
\* transcript_data = None
NoneTranscript == [none |-> TRUE]
\* transcript_data = {}
EmptyDict == [k \in {} |-> 0]

Whitespace == {" ", "\n"}

(***************************************************************************)
(* str.strip(), str.split(), " ".join(...)                                 *)
(***************************************************************************)
RECURSIVE LStrip(_)
LStrip(s) ==
    IF s # <<>> /\ Head(s) \in Whitespace THEN LStrip(Tail(s)) ELSE s

RECURSIVE RStrip(_)
RStrip(s) ==
    IF s # <<>> /\ s[Len(s)] \in Whitespace
    THEN RStrip(SubSeq(s, 1, Len(s) - 1)) ELSE s

Strip(s) == RStrip(LStrip(s))

\* str.split(): the maximal runs of non-whitespace characters, in order
RECURSIVE SplitFrom(_, _, _)
SplitFrom(s, word, words) ==
    IF s = <<>>
    THEN IF word = <<>> THEN words ELSE Append(words, word)
    ELSE IF Head(s) \in Whitespace
         THEN SplitFrom(Tail(s), <<>>,
                        IF word = <<>> THEN words ELSE Append(words, word))
         ELSE SplitFrom(Tail(s), Append(word, Head(s)), words)

Split(s) == SplitFrom(s, <<>>, <<>>)

\* " ".join(texts)
RECURSIVE JoinSpace(_)
JoinSpace(texts) ==
    IF texts = <<>> THEN <<>>
    ELSE IF Len(texts) = 1 THEN texts[1]
    ELSE texts[1] \o <<" ">> \o JoinSpace(Tail(texts))

(***************************************************************************)
(* The inputs of the calls.                                                *)
(***************************************************************************)
\* n copies of the one-letter word c, separated by single spaces
RECURSIVE Words(_, _)
Words(c, n) ==
    IF n = 0 THEN <<>>
    ELSE IF n = 1 THEN <<c>>
    ELSE <<c, " ">> \o Words(c, n - 1)

\* a word with a space before it (as Whisper writes a segment) and after it
PaddedWord == <<" ", "a", " ">>

\* three words, the first two of them two spaces apart
ThreeWords == <<"b", " ", " ", "c", " ", "g">>

\* segment texts: None, "", whitespace only, and texts of 1, 3, 5, 7 and
\* 10 words
TextPool ==
    { NoneText, <<>>, <<" ", "\n">>, PaddedWord, ThreeWords,
      Words("d", 5), Words("e", 7), Words("f", 10) }

\* the texts of a session: whitespace only, one word, three words
SessionTextPool == { <<" ", "\n">>, PaddedWord, ThreeWords }

WordsPerChunkSet == {1, 2, 10}

SessionWordsPerChunkSet == {1}

\* the transcript carries the language "es", or no "language" key
LanguageOptions == {"absent", "es"}

\* start and end of the k-th segment: ascending starts from 0 with gaps,
\* every second segment of zero length; or descending starts with end < start
TimingProfiles == {"ascending", "reversed"}

SegmentStart(profile, k) ==
    CASE profile = "ascending" -> 3 * (k - 1)
      [] profile = "reversed" -> 2 * (MaxSegs + 2 - k)

SegmentEnd(profile, k) ==
    CASE profile = "ascending" -> 3 * (k - 1) + 2 * (k % 2)
      [] profile = "reversed" -> 2 * (MaxSegs + 2 - k) - 1

TextSeqs(pool, n) == UNION { [1..m -> pool] : m \in 0..n }

Segments(texts, profile) ==
    [k \in 1..Len(texts) |->
        [text |-> texts[k], start |-> SegmentStart(profile, k),
         end |-> SegmentEnd(profile, k)]]

\* the dict {"language": ..., "segments": [...]}, with or without the key
TranscriptDict(language, segments) ==
    IF language = "absent" THEN [segments |-> segments]
    ELSE [language |-> language, segments |-> segments]

\* None, {}, a dict without "segments", and the dicts with a segment list
Transcripts ==
    { NoneTranscript, EmptyDict, [language |-> "es"] }
    \cup { TranscriptDict(language, Segments(texts, profile)) :
             texts \in TextSeqs(TextPool, MaxSegs),
             profile \in TimingProfiles, language \in LanguageOptions }

SessionTranscripts ==
    { [segments |-> Segments(texts, "ascending")] :
        texts \in TextSeqs(SessionTextPool, MaxSessionSegs) }

(***************************************************************************)
(* generate_image_prompt_with_openai: the prompt of the model's reply, or  *)
(* None on any failure (no API key, API error, malformed reply).           *)
(***************************************************************************)
GeneratedPrompt == "Generated English prompt."

PromptOutcomes == {GeneratedPrompt, NonePrompt}

(***************************************************************************)
(* split_transcript_into_scenes                                            *)
(***************************************************************************)
\* `not transcript_data or "segments" not in transcript_data
\*  or not transcript_data["segments"]`
IsMalformed(t) ==
    \/ "none" \in DOMAIN t
    \/ DOMAIN t = {}
    \/ "segments" \notin DOMAIN t
    \/ t.segments = <<>>

\* faulty variant: the language tag of the transcript is ignored
GetLanguageAlwaysEn(t) == "en"

\* transcript_data.get("language", "en")
GetLanguage(t) == IF "language" \in DOMAIN t THEN t.language ELSE "en"

\* segment.get("text", "").strip() raises AttributeError on None
StripRaises(segment) == segment.text = NoneText

\* faulty variant: no segment is skipped
NeverSkipped(segment_text) == FALSE

\* `if not segment_text: continue`
IsSkipped(segment_text) == segment_text = <<>>

\* len(segment_text.split())
WordCount(segment_text) == Len(Split(segment_text))

\* faulty variant: a segment is oversized from twice words_per_chunk on
IsOversizedAloneFromDouble(count, segment_word_count, wpc) ==
    count = 0 /\ segment_word_count >= 2 * wpc

\* faulty variant: the oversize test is strict
IsOversizedAloneStrict(count, segment_word_count, wpc) ==
    count = 0 /\ 2 * segment_word_count > 3 * wpc

\* `current_chunk_word_count == 0 and
\*  segment_word_count >= words_per_chunk * 1.5`
IsOversizedAlone(count, segment_word_count, wpc) ==
    count = 0 /\ 2 * segment_word_count >= 3 * wpc

\* faulty variant: the chunk may grow one word beyond the flush threshold
IsFlushOneWordLate(count, segment_word_count, wpc) ==
    count > 0 /\ count + segment_word_count > wpc + 6

\* faulty variant: the chunk is flushed as soon as the threshold is reached
IsFlushAtThreshold(count, segment_word_count, wpc) ==
    count > 0 /\ count + segment_word_count >= wpc + 5

\* `current_chunk_word_count > 0 and (current_chunk_word_count +
\*  segment_word_count > words_per_chunk + 5)`
IsFlush(count, segment_word_count, wpc) ==
    count > 0 /\ count + segment_word_count > wpc + 5

\* faulty variant: every appended segment overwrites the start of the chunk
ChunkStartOverwritten(start_time, segment_start) == segment_start

\* `if chunk_start_time < 0: chunk_start_time = segment_start`
ChunkStart(start_time, segment_start) ==
    IF start_time < 0 THEN segment_start ELSE start_time

\* faulty variant: a scene whose prompt failed is not kept
AppendSceneIfPrompt(scene_list, scene) ==
    IF scene.image_prompt = NonePrompt THEN scene_list
    ELSE Append(scene_list, scene)

\* scenes.append(scene)
AppendScene(scene_list, scene) == Append(scene_list, scene)

Scene(chunk_text, start_time, end_time, image_prompt) ==
    [chunk_text |-> chunk_text, start_time |-> start_time,
     end_time |-> end_time, image_prompt |-> image_prompt]

\* one call of the prompt generator, as the mock records it
PromptCall(text_chunk, language, returned) ==
    [text_chunk |-> text_chunk, language |-> language, returned |-> returned]

\* the local variables of the function, as one value
Locals ==
    [scenes |-> scenes, current_chunk_text |-> current_chunk_text,
     current_chunk_word_count |-> current_chunk_word_count,
     chunk_start_time |-> chunk_start_time,
     chunk_end_time |-> chunk_end_time, prompt_calls |-> prompt_calls]

\* faulty variant: the accumulator is left as the call before left it
StaleAccumulator ==
    [scenes |-> <<>>, current_chunk_text |-> current_chunk_text,
     current_chunk_word_count |-> current_chunk_word_count,
     chunk_start_time |-> chunk_start_time,
     chunk_end_time |-> chunk_end_time, prompt_calls |-> <<>>]

\* the locals as lines 97-101 set them
FreshLocals ==
    [scenes |-> <<>>, current_chunk_text |-> <<>>,
     current_chunk_word_count |-> 0, chunk_start_time |-> -1,
     chunk_end_time |-> -1, prompt_calls |-> <<>>]

\* one iteration of `for segment in segments` on a segment whose text is a
\* string; image_prompt is what the prompt generator returns if it is called
LoopBody(l, segment, wpc, language, image_prompt) ==
    LET segment_text == Strip(segment.text)
        segment_word_count == WordCount(segment_text)
        full_chunk_text == JoinSpace(l.current_chunk_text)
    IN  IF IsSkipped(segment_text) THEN l
        ELSE IF IsOversizedAlone(l.current_chunk_word_count,
                                 segment_word_count, wpc)
        THEN [l EXCEPT
                !.prompt_calls =
                    Append(@, PromptCall(segment_text, language, image_prompt)),
                !.scenes =
                    AppendScene(@, Scene(segment_text, segment.start,
                                         segment.end, image_prompt))]
        ELSE IF IsFlush(l.current_chunk_word_count, segment_word_count, wpc)
        THEN [l EXCEPT
                !.prompt_calls =
                    Append(@, PromptCall(full_chunk_text, language,
                                         image_prompt)),
                !.scenes =
                    AppendScene(@, Scene(full_chunk_text, l.chunk_start_time,
                                         l.chunk_end_time, image_prompt)),
                !.current_chunk_text = <<segment_text>>,
                !.current_chunk_word_count = segment_word_count,
                !.chunk_start_time = segment.start,
                !.chunk_end_time = segment.end]
        ELSE [l EXCEPT
                !.chunk_start_time = ChunkStart(@, segment.start),
                !.current_chunk_text = Append(@, segment_text),
                !.current_chunk_word_count = @ + segment_word_count,
                !.chunk_end_time = segment.end]

\* faulty variant: the last remaining chunk is forgotten
FinalFlushForgotten(l, language, image_prompt) == l

\* lines 152-161: the last remaining chunk, if any
FinalFlush(l, language, image_prompt) ==
    LET full_chunk_text == JoinSpace(l.current_chunk_text)
    IN  IF l.current_chunk_text # <<>>
        THEN [l EXCEPT
                !.prompt_calls =
                    Append(@, PromptCall(full_chunk_text, language,
                                         image_prompt)),
                !.scenes =
                    AppendScene(@, Scene(full_chunk_text, l.chunk_start_time,
                                         l.chunk_end_time, image_prompt))]
        ELSE l

SetLocals(l) ==
    /\ scenes' = l.scenes
    /\ current_chunk_text' = l.current_chunk_text
    /\ current_chunk_word_count' = l.current_chunk_word_count
    /\ chunk_start_time' = l.chunk_start_time
    /\ chunk_end_time' = l.chunk_end_time
    /\ prompt_calls' = l.prompt_calls

\* faulty variant: no guard, the lookup of "segments" raises
RaiseOnMalformed ==
    /\ pc' = "raised"
    /\ UNCHANGED <<source_language, segment_index, scenes,
                   current_chunk_text, current_chunk_word_count,
                   chunk_start_time, chunk_end_time, prompt_calls, result>>

\* lines 91-92: `return []` before any local is set
ReturnEmpty ==
    /\ pc' = "returned"
    /\ result' = <<>>
    /\ prompt_calls' = <<>>
    /\ UNCHANGED <<source_language, segment_index, scenes,
                   current_chunk_text, current_chunk_word_count,
                   chunk_start_time, chunk_end_time>>

\* the call split_transcript_into_scenes(t, wpc), up to the loop (lines 90-101)
Enter(t, wpc) ==
    /\ transcript_data' = t
    /\ words_per_chunk' = wpc
    /\ calls_made' = calls_made + 1
    /\ IF IsMalformed(t)
       THEN ReturnEmpty
       ELSE /\ pc' = "loop"
            /\ source_language' = GetLanguage(t)
            /\ segment_index' = 1
            /\ SetLocals(FreshLocals)
            /\ UNCHANGED result

\* the only call of a run
Call ==
    /\ pc = "idle"
    /\ calls_made = 0
    /\ \E t \in Transcripts, wpc \in WordsPerChunkSet : Enter(t, wpc)
    /\ UNCHANGED <<previous, srt_vars, reel_vars,
                   image_vars, pipeline_vars, job_vars>>

\* one iteration of the loop (lines 103-150)
LoopStep ==
    /\ pc = "loop"
    /\ segment_index <= Len(transcript_data.segments)
    /\ LET segment == transcript_data.segments[segment_index]
       IN  IF StripRaises(segment)
           THEN /\ pc' = "raised"
                /\ UNCHANGED <<segment_index, scenes, current_chunk_text,
                               current_chunk_word_count, chunk_start_time,
                               chunk_end_time, prompt_calls>>
           ELSE /\ \E image_prompt \in PromptOutcomes :
                      SetLocals(LoopBody(Locals, segment, words_per_chunk,
                                         source_language, image_prompt))
                /\ segment_index' = segment_index + 1
                /\ pc' = "loop"
    /\ UNCHANGED <<transcript_data, words_per_chunk, source_language,
                   result, calls_made, previous, srt_vars, reel_vars,
                   image_vars, pipeline_vars, job_vars>>

\* after the loop (lines 152-163)
Return ==
    /\ pc = "loop"
    /\ segment_index > Len(transcript_data.segments)
    /\ \E image_prompt \in PromptOutcomes :
          /\ SetLocals(FinalFlush(Locals, source_language, image_prompt))
          /\ result' = FinalFlush(Locals, source_language, image_prompt).scenes
    /\ pc' = "returned"
    /\ UNCHANGED <<transcript_data, words_per_chunk, source_language,
                   segment_index, calls_made, previous, srt_vars,
                   reel_vars,
                   image_vars, pipeline_vars, job_vars>>

Init ==
    /\ pc = "idle"
    /\ transcript_data = NoneTranscript
    /\ words_per_chunk = 0
    /\ source_language = "en"
    /\ segment_index = 0
    /\ scenes = <<>>
    /\ current_chunk_text = <<>>
    /\ current_chunk_word_count = 0
    /\ chunk_start_time = -1
    /\ chunk_end_time = -1
    /\ prompt_calls = <<>>
    /\ result = <<>>
    /\ calls_made = 0
    /\ previous = <<>>
    /\ srt_pc = "idle"
    /\ srt_transcript_data = NoneTranscript
    /\ srt_i = 0
    /\ srt_content = <<>>
    /\ srt_io = "none"
    /\ srt_file = <<>>
    /\ srt_result = "none"
    /\ reel_pc = "idle"
    /\ scenes_data = <<>>
    /\ images_dir = {}
    /\ image_i = 0
    /\ generated_image_count = 0
    /\ audio_exists = FALSE
    /\ video_duration = 0
    /\ compose_i = 0
    /\ image_clips = <<>>
    /\ final_duration = 0
    /\ all_video_clips = <<>>
    /\ subtitles_config = [none |-> TRUE]
    /\ final_video = <<>>
    /\ output_video = FALSE
    /\ compose_raised = FALSE
    /\ compose_result = "none"
    /\ image_pc = "idle"
    /\ api_key = FALSE
    /\ prompt_arg = NonePrompt
    /\ attempt = 0
    /\ responses = <<>>
    /\ image_file = "absent"
    /\ image_result = "none"
    /\ pipeline_pc = "idle"
    /\ args_subtitles = "none"
    /\ original_transcript_data = NoneTranscript
    /\ detected_language = "unknown"
    /\ translate_i = 0
    /\ translate_results = <<>>
    /\ translated_segments = <<>>
    /\ translated_transcript_data = NoneTranscript
    /\ sub_config = [none |-> TRUE]
    /\ stored_project = [none |-> TRUE]
    /\ submit_pc = "idle"
    /\ submitted_project = [none |-> TRUE]
    /\ task_pc = "none"
    /\ video_project = [none |-> TRUE]
    /\ task_outcome = "none"
    /\ task_exception = "none"
    /\ update_pc = "idle"
    /\ settings_project = [none |-> TRUE]
    /\ request_data = [none |-> TRUE]
    /\ updates_made = 0

Next == Call \/ LoopStep \/ Return

Spec == Init /\ [][Next]_vars

(***************************************************************************)
(* A session: the same process calls the function several times, each      *)
(* time after the call before has returned.                                *)
(***************************************************************************)
SessionCall ==
    /\ pc \in {"idle", "returned"}
    /\ calls_made < MaxCalls
    /\ \E t \in SessionTranscripts, wpc \in SessionWordsPerChunkSet :
          Enter(t, wpc)
    /\ previous' =
          IF pc = "returned"
          THEN <<[transcript_data |-> transcript_data,
                  words_per_chunk |-> words_per_chunk, result |-> result]>>
          ELSE previous
    /\ UNCHANGED <<srt_vars, reel_vars,
                   image_vars, pipeline_vars, job_vars>>

NextSession == SessionCall \/ LoopStep \/ Return

SpecSession == Init /\ [][NextSession]_vars

(***************************************************************************)
(* The scenes a call returns when every prompt is generated.               *)
(***************************************************************************)
RECURSIVE RunLoop(_, _, _, _, _)
RunLoop(l, segments, i, wpc, language) ==
    IF i > Len(segments)
    THEN FinalFlush(l, language, GeneratedPrompt).scenes
    ELSE RunLoop(LoopBody(l, segments[i], wpc, language, GeneratedPrompt),
                 segments, i + 1, wpc, language)

ScenesWhenPromptsSucceed(t, wpc) ==
    IF IsMalformed(t) THEN <<>>
    ELSE RunLoop(FreshLocals, t.segments, 1, wpc, GetLanguage(t))

(***************************************************************************)
(* The vocabulary of the claims, defined on the texts themselves.          *)
(***************************************************************************)
IsBlankText(text) == \A i \in 1..Len(text) : text[i] \in Whitespace

SetMin(S) == CHOOSE x \in S : \A y \in S : x <= y

SetMax(S) == CHOOSE x \in S : \A y \in S : x >= y

\* the text without its leading and trailing whitespace
Trimmed(text) ==
    LET inked == {i \in 1..Len(text) : text[i] \notin Whitespace}
    IN  IF inked = {} THEN <<>>
        ELSE SubSeq(text, SetMin(inked), SetMax(inked))

\* the number of whitespace-delimited words of the text
NumWords(text) ==
    Cardinality({i \in 1..Len(text) :
                    /\ text[i] \notin Whitespace
                    /\ (i = 1 \/ text[i - 1] \in Whitespace)})

\* the texts, in order, with one space between two of them
RECURSIVE SpaceJoined(_)
SpaceJoined(texts) ==
    IF Len(texts) = 0 THEN <<>>
    ELSE IF Len(texts) = 1 THEN texts[1]
    ELSE SpaceJoined(SubSeq(texts, 1, Len(texts) - 1))
         \o <<" ">> \o texts[Len(texts)]

HasSegments(t) == "segments" \in DOMAIN t /\ t.segments # <<>>

HasText(segment) == segment.text # NoneText /\ ~IsBlankText(segment.text)

\* the segments with text of the transcript of the call, in order
TextSegments ==
    IF HasSegments(transcript_data)
    THEN SelectSeq(transcript_data.segments, HasText)
    ELSE <<>>

TrimmedTexts(segments) ==
    [k \in 1..Len(segments) |-> Trimmed(segments[k].text)]

ChunkTexts(scene_list) ==
    [k \in 1..Len(scene_list) |-> scene_list[k].chunk_text]

\* the scenes without their prompts
Boundaries(scene_list) ==
    [k \in 1..Len(scene_list) |->
        [chunk_text |-> scene_list[k].chunk_text,
         start_time |-> scene_list[k].start_time,
         end_time |-> scene_list[k].end_time]]

\* the transcript's language tag, "en" without one
LanguageTag(t) == IF "language" \in DOMAIN t THEN t.language ELSE "en"

\* the loop is about to process a segment with text, and does
ProcessesTextSegment ==
    /\ pc = "loop"
    /\ segment_index <= Len(transcript_data.segments)
    /\ HasText(transcript_data.segments[segment_index])
    /\ pc' = "loop"
    /\ segment_index' = segment_index + 1

Arriving == transcript_data.segments[segment_index]

(***************************************************************************)
(* The claims.                                                             *)
(***************************************************************************)
\* C1: coverage. When a call on a transcript with at least one segment
\* returns, the chunk_text of its scenes, in order and joined with single
\* spaces, is the trimmed texts of the segments that are not whitespace
\* only, in order and joined with single spaces.
C1_Coverage ==
    (pc = "returned" /\ HasSegments(transcript_data)) =>
        SpaceJoined(ChunkTexts(result))
            = SpaceJoined(TrimmedTexts(TextSegments))

\* a call that merged three segments with text into two scenes
C1_Witness ==
    /\ pc = "returned"
    /\ Len(TextSegments) = 3
    /\ Len(result) = 2
    /\ \E k \in 1..3 : TextSegments[k].text = PaddedWord

\* C2: flush before overflow. When a segment with text arrives while the
\* accumulator is not empty, the accumulator becomes one completed scene and
\* the segment the only element of the next accumulator exactly when
\* accumulator words + segment words > words_per_chunk + 5; otherwise the
\* segment is appended to the accumulator and no scene is completed.  Word
\* counts 10, 7, 5 with words_per_chunk = 10 give [seg1] and [seg2, seg3].
C2_FlushStep ==
    (ProcessesTextSegment /\ current_chunk_text # <<>>) =>
        LET text == Trimmed(Arriving.text)
        IN  IF current_chunk_word_count + NumWords(text) > words_per_chunk + 5
            THEN /\ Len(scenes') = Len(scenes) + 1
                 /\ SubSeq(scenes', 1, Len(scenes)) = scenes
                 /\ Boundaries(scenes')[Len(scenes')]
                      = [chunk_text |-> SpaceJoined(current_chunk_text),
                         start_time |-> chunk_start_time,
                         end_time |-> chunk_end_time]
                 /\ current_chunk_text' = <<text>>
                 /\ current_chunk_word_count' = NumWords(text)
            ELSE /\ scenes' = scenes
                 /\ current_chunk_text' = Append(current_chunk_text, text)
                 /\ current_chunk_word_count'
                      = current_chunk_word_count + NumWords(text)

C2_Example ==
    (/\ pc = "returned"
     /\ HasSegments(transcript_data)
     /\ words_per_chunk = 10
     /\ [k \in 1..Len(transcript_data.segments) |->
            transcript_data.segments[k].text]
          = <<Words("f", 10), Words("e", 7), Words("d", 5)>>) =>
        ChunkTexts(result)
            = <<Words("f", 10), Words("e", 7) \o <<" ">> \o Words("d", 5)>>

C2_FlushBeforeOverflow == [][C2_FlushStep]_vars /\ []C2_Example

\* the call on word counts 10, 7, 5 with words_per_chunk = 10 has returned
\* the two scenes [seg1] and [seg2, seg3]
C2_Witness ==
    /\ pc = "returned"
    /\ words_per_chunk = 10
    /\ ChunkTexts(result)
         = <<Words("f", 10), Words("e", 7) \o <<" ">> \o Words("d", 5)>>
    /\ Len(transcript_data.segments) = 3

\* C3: oversized segment. When a segment with text arrives while the
\* accumulator is empty and its word count is >= words_per_chunk * 1.5, it is
\* emitted alone as a scene (its trimmed text, its start and end) and the
\* accumulator stays empty; a transcript of one such segment yields exactly
\* one scene.
C3_OversizedStep ==
    (/\ ProcessesTextSegment
     /\ current_chunk_text = <<>>
     /\ 2 * NumWords(Arriving.text) >= 3 * words_per_chunk) =>
        /\ Len(scenes') = Len(scenes) + 1
        /\ SubSeq(scenes', 1, Len(scenes)) = scenes
        /\ Boundaries(scenes')[Len(scenes')]
             = [chunk_text |-> Trimmed(Arriving.text),
                start_time |-> Arriving.start, end_time |-> Arriving.end]
        /\ current_chunk_text' = <<>>
        /\ current_chunk_word_count' = 0

C3_SingleOversized ==
    (/\ pc = "returned"
     /\ HasSegments(transcript_data)
     /\ Len(transcript_data.segments) = 1
     /\ HasText(transcript_data.segments[1])
     /\ 2 * NumWords(transcript_data.segments[1].text)
          >= 3 * words_per_chunk) =>
        /\ Len(result) = 1
        /\ result[1].chunk_text = Trimmed(transcript_data.segments[1].text)

C3_OversizedSegment == [][C3_OversizedStep]_vars /\ []C3_SingleOversized

\* a transcript of one segment of exactly words_per_chunk * 1.5 words has
\* been returned as one scene
C3_Witness ==
    /\ pc = "returned"
    /\ HasSegments(transcript_data)
    /\ Len(transcript_data.segments) = 1
    /\ transcript_data.segments[1].text = ThreeWords
    /\ words_per_chunk = 2
    /\ Len(result) = 1

\* C4: one prompt call per scene. At every moment of a call the prompt
\* generator has been called once per scene emitted so far, the k-th call
\* with the k-th scene's chunk_text and the transcript's language tag ("en"
\* without one); the returned list has as many scenes as calls were made.
C4_OnePromptCallPerScene ==
    LET emitted == IF pc = "returned" THEN result ELSE scenes
    IN  /\ Len(prompt_calls) = Len(emitted)
        /\ \A k \in 1..Len(prompt_calls) :
              /\ prompt_calls[k].text_chunk = emitted[k].chunk_text
              /\ prompt_calls[k].language = LanguageTag(transcript_data)

\* a call on a transcript without language tag has returned two scenes
C4_Witness ==
    /\ pc = "returned"
    /\ "language" \notin DOMAIN transcript_data
    /\ Len(result) = 2
    /\ prompt_calls[2].language = "en"

\* C5: prompt-failure isolation. Whatever prompts fail, a call returns the
\* scenes (chunk_text, start_time, end_time) it returns when every prompt
\* succeeds; every scene has had its own prompt call and carries what that
\* call returned, null for a failed one.
C5_PromptFailureIsolation ==
    pc = "returned" =>
        /\ Boundaries(result)
             = Boundaries(ScenesWhenPromptsSucceed(transcript_data,
                                                   words_per_chunk))
        /\ Len(prompt_calls) = Len(result)
        /\ \A k \in 1..Len(result) :
              result[k].image_prompt = prompt_calls[k].returned

\* two scenes returned, the first with a failed prompt, the second with one
C5_Witness ==
    /\ pc = "returned"
    /\ Len(result) = 2
    /\ result[1].image_prompt = NonePrompt
    /\ result[2].image_prompt = GeneratedPrompt

\* the transcript is absent (None), an empty record, has no "segments" key,
\* or has an empty list of segments
NothingToDo(t) ==
    \/ t = NoneTranscript
    \/ t = EmptyDict
    \/ "segments" \notin DOMAIN t
    \/ t.segments = <<>>

\* C6: malformed or empty input is "nothing to do". A call on a transcript
\* that is absent, an empty record, without "segments" key or with an empty
\* segment list returns the empty list, without raising and without any
\* prompt-generation call.
C6_NothingToDo ==
    (calls_made > 0 /\ NothingToDo(transcript_data)) =>
        /\ pc = "returned"
        /\ result = <<>>
        /\ prompt_calls = <<>>

\* the call on a record that has a language but no "segments" key returned
C6_Witness ==
    /\ calls_made = 1
    /\ pc = "returned"
    /\ transcript_data = [language |-> "es"]
    /\ result = <<>>

\* the transcript without its segments of empty or whitespace-only text
WithoutBlankSegments(t) ==
    IF "segments" \in DOMAIN t
    THEN [t EXCEPT !.segments =
             SelectSeq(t.segments, LAMBDA seg : ~IsBlankText(seg.text))]
    ELSE t

\* C7: whitespace-only segments contribute nothing. A call returns the
\* scenes (number, chunk_text, start_time, end_time) that the transcript
\* without its empty and whitespace-only segments gives; a transcript made
\* only of such segments gives no scene.
C7_BlankSegmentsContributeNothing ==
    pc = "returned" =>
        /\ Boundaries(result)
             = Boundaries(ScenesWhenPromptsSucceed(
                              WithoutBlankSegments(transcript_data),
                              words_per_chunk))
        /\ (TextSegments = <<>> => result = <<>>)

\* a call has returned scenes for a transcript with a whitespace-only
\* segment between two segments with text
C7_Witness ==
    /\ pc = "returned"
    /\ HasSegments(transcript_data)
    /\ Len(transcript_data.segments) = 3
    /\ HasText(transcript_data.segments[1])
    /\ IsBlankText(transcript_data.segments[2].text)
    /\ HasText(transcript_data.segments[3])
    /\ result # <<>>

\* C8: a segment whose text is "" or None is skipped without error: the call
\* never raises, and the scenes it returns are built from the segments that
\* have text.
C8_MissingTextSkipped ==
    /\ pc # "raised"
    /\ (pc = "returned" /\ HasSegments(transcript_data)) =>
          SpaceJoined(ChunkTexts(result))
              = SpaceJoined(TrimmedTexts(TextSegments))

\* end >= start for every segment, and the starts ascend
TimesOrdered(segments) ==
    /\ \A k \in 1..Len(segments) : segments[k].end >= segments[k].start
    /\ \A j, k \in 1..Len(segments) :
          j < k => segments[j].start <= segments[k].start

\* the ways to cut n segments, in order, into m non-empty runs
Groupings(n, m) ==
    {g \in [1..n -> 1..m] :
        /\ \A k \in 1..m : \E i \in 1..n : g[i] = k
        /\ \A i, j \in 1..n : i < j => g[i] <= g[j]}

\* C9: scene timing. When a call returns on a transcript whose segments
\* have end >= start and ascending starts, the segments with text are cut,
\* in order, into one run per scene: the scene's chunk_text is the run's
\* joined texts, its start_time the start of the run's first segment, its
\* end_time the end of the run's last segment; and start_time <= end_time.
C9_SceneTiming ==
    (/\ pc = "returned"
     /\ HasSegments(transcript_data)
     /\ TimesOrdered(transcript_data.segments)) =>
        /\ \E g \in Groupings(Len(TextSegments), Len(result)) :
              \A k \in 1..Len(result) :
                 LET run == {i \in 1..Len(TextSegments) : g[i] = k}
                     first == SetMin(run)
                     last == SetMax(run)
                 IN  /\ result[k].chunk_text
                          = SpaceJoined(TrimmedTexts(
                                SubSeq(TextSegments, first, last)))
                     /\ result[k].start_time = TextSegments[first].start
                     /\ result[k].end_time = TextSegments[last].end
        /\ \A k \in 1..Len(result) :
              result[k].start_time <= result[k].end_time

\* a returned scene merges the first two segments of a transcript with
\* ordered times: it starts at 0 and ends when the second segment ends
C9_Witness ==
    /\ pc = "returned"
    /\ HasSegments(transcript_data)
    /\ TimesOrdered(transcript_data.segments)
    /\ Len(TextSegments) = 3
    /\ Len(result) = 2
    /\ result[1].start_time = TextSegments[1].start
    /\ result[1].end_time = TextSegments[2].end
    /\ result[1].start_time < result[1].end_time

\* C10: idempotence and call independence. In a session of calls, a call
\* on the transcript and words_per_chunk of the call before it returns the
\* same scenes (boundaries, texts, timings), and every call of the session
\* returns what a first call on its transcript returns.
C10_Idempotence ==
    pc = "returned" =>
        /\ (/\ previous # <<>>
            /\ previous[1].transcript_data = transcript_data
            /\ previous[1].words_per_chunk = words_per_chunk) =>
               Boundaries(result) = Boundaries(previous[1].result)
        /\ Boundaries(result)
             = Boundaries(ScenesWhenPromptsSucceed(transcript_data,
                                                   words_per_chunk))

\* a third call, on the transcript of the second, has returned a scene
C10_Witness ==
    /\ pc = "returned"
    /\ calls_made = 3
    /\ previous # <<>>
    /\ previous[1].transcript_data = transcript_data
    /\ result # <<>>
    /\ result = previous[1].result

(***************************************************************************)
(* podcast_to_reels/video_composer.py: format_srt_timestamp.               *)
(* Its argument is a Python float, an IEEE-754 binary64.  A non-negative   *)
(* double is modelled by its whole part and the bits of its fraction after *)
(* the binary point, most significant first, so that                        *)
(* `(seconds - int(seconds)) * 1000` is computed as the hardware computes   *)
(* it: the subtraction is exact, the product is rounded to the nearest     *)
(* double, ties to even.  A numeral is a sequence of bits, most            *)
(* significant first.                                                      *)
(***************************************************************************)
\* significand width of a binary64
DoubleMantissaBits == 53

Zeros(n) == [k \in 1..n |-> 0]

Reverse(s) == [k \in 1..Len(s) |-> s[Len(s) + 1 - k]]

RECURSIVE StripLeadingZeros(_)
StripLeadingZeros(b) ==
    IF b # <<>> /\ Head(b) = 0 THEN StripLeadingZeros(Tail(b)) ELSE b

\* sum of two numerals given least significant bit first
RECURSIVE AddLE(_, _, _)
AddLE(a, b, carry) ==
    IF a = <<>> /\ b = <<>>
    THEN IF carry = 1 THEN <<1>> ELSE <<>>
    ELSE LET x == IF a = <<>> THEN 0 ELSE Head(a)
             y == IF b = <<>> THEN 0 ELSE Head(b)
             sum == x + y + carry
         IN  <<sum % 2>>
             \o AddLE(IF a = <<>> THEN <<>> ELSE Tail(a),
                      IF b = <<>> THEN <<>> ELSE Tail(b), sum \div 2)

Add(a, b) == Reverse(AddLE(Reverse(a), Reverse(b), 0))

ShiftLeft(a, k) == a \o Zeros(k)

\* 1000 * n, exactly: 1000 = 2^9 + 2^8 + 2^7 + 2^6 + 2^5 + 2^3
TimesThousand(n) ==
    Add(Add(Add(ShiftLeft(n, 9), ShiftLeft(n, 8)),
            Add(ShiftLeft(n, 7), ShiftLeft(n, 6))),
        Add(ShiftLeft(n, 5), ShiftLeft(n, 3)))

\* the nearest numeral with at most 53 significant bits, ties to even
RoundToDouble(n) ==
    LET m == StripLeadingZeros(n)
    IN  IF Len(m) <= DoubleMantissaBits THEN m
        ELSE LET keep == SubSeq(m, 1, DoubleMantissaBits)
                 guard == m[DoubleMantissaBits + 1]
                 sticky == \E k \in (DoubleMantissaBits + 2)..Len(m) :
                              m[k] = 1
                 up == guard = 1
                       /\ (sticky \/ keep[DoubleMantissaBits] = 1)
                 kept == IF up THEN Add(keep, <<1>>) ELSE keep
             IN  ShiftLeft(kept, Len(m) - DoubleMantissaBits)

RECURSIVE ToInt(_)
ToInt(b) ==
    IF b = <<>> THEN 0
    ELSE 2 * ToInt(SubSeq(b, 1, Len(b) - 1)) + b[Len(b)]

\* line 16: millis = int((seconds - int(seconds)) * 1000)
Millis(seconds) ==
    LET product == RoundToDouble(TimesThousand(seconds.frac))
        places == Len(seconds.frac)
    IN  IF Len(product) <= places THEN 0
        ELSE ToInt(SubSeq(product, 1, Len(product) - places))

Digit(d) == <<"0", "1", "2", "3", "4", "5", "6", "7", "8", "9">>[d + 1]

\* str(n), n >= 0
RECURSIVE Decimal(_)
Decimal(n) ==
    IF n < 10 THEN <<Digit(n)>>
    ELSE Decimal(n \div 10) \o <<Digit(n % 10)>>

\* f"{n:0{width}d}", n >= 0
ZeroPadded(n, width) ==
    LET d == Decimal(n)
    IN  IF Len(d) >= width THEN d
        ELSE [k \in 1..(width - Len(d)) |-> "0"] \o d

\* lines 14-22
format_srt_timestamp(seconds) ==
    LET millis == Millis(seconds)
        whole == seconds.whole
        total_minutes == whole \div 60
        secs == whole % 60
        hours == total_minutes \div 60
        minutes == total_minutes % 60
    IN  ZeroPadded(hours, 2) \o <<":">> \o ZeroPadded(minutes, 2)
        \o <<":">> \o ZeroPadded(secs, 2) \o <<",">>
        \o ZeroPadded(millis, 3)

(***************************************************************************)
(* Times of the fixtures: the decimal literal, in milliseconds, and the    *)
(* double the interpreter reads it as.                                      *)
(***************************************************************************)
\* 0.0
Time0 == [literal_ms |-> 0, whole |-> 0, frac |-> <<>>]

\* 1.234 = 0x1.3be76c8b43958p+0
Time1234 ==
    [literal_ms |-> 1234, whole |-> 1,
     frac |-> <<0,0,1,1,1,0,1,1,1,1,1,0,0,1,1,1,0,1,1,0,1,1,0,0,1,0,0,0,1,
                0,1,1,0,1,0,0,0,0,1,1,1,0,0,1,0,1,0,1,1>>]

\* 65.05 = 0x1.0433333333333p+6
Time65050 ==
    [literal_ms |-> 65050, whole |-> 65,
     frac |-> <<0,0,0,0,1,1,0,0,1,1,0,0,1,1,0,0,1,1,0,0,1,1,0,0,1,1,0,0,1,
                1,0,0,1,1,0,0,1,1,0,0,1,1,0,0,1,1>>]

\* 3661.0
Time3661 == [literal_ms |-> 3661000, whole |-> 3661, frac |-> <<>>]

\* 360000.5, one hundred hours and a half second
Time100h == [literal_ms |-> 360000500, whole |-> 360000, frac |-> <<1>>]

\* the (start, end) pairs of the segments
SrtTimePairs ==
    { <<Time0, Time1234>>, <<Time65050, Time3661>>, <<Time3661, Time100h>> }

(***************************************************************************)
(* podcast_to_reels/video_composer.py: generate_srt_from_transcript.       *)
(* srt_content is the list of lines the loop builds; srt_file is the file  *)
(* at srt_file_path, <<>> while it does not exist and <<content>> once it  *)
(* does.                                                                   *)
(***************************************************************************)
SrtTextPool == { NoneText, <<>>, PaddedWord, ThreeWords }

SrtSegmentPool ==
    { [text |-> text, start |-> pair[1], end |-> pair[2]] :
        text \in SrtTextPool, pair \in SrtTimePairs }

SrtTranscripts ==
    { NoneTranscript, EmptyDict, [language |-> "es"] }
    \cup { [segments |-> segments] :
             segments \in UNION { [1..m -> SrtSegmentPool] :
                                    m \in 0..MaxSrtSegs } }

\* what saving the file can do: succeed, fail before the file is opened
\* (os.makedirs or open raises), fail after open(..., "w") created it
IoOutcomes == { "ok", "open_error", "write_error" }

\* line 36: `not transcript_data or "segments" not in transcript_data`
SrtIsInvalid(t) ==
    \/ "none" \in DOMAIN t
    \/ DOMAIN t = {}
    \/ "segments" \notin DOMAIN t

\* line 44: `.strip()` of None raises AttributeError, outside any try
SrtStripRaises(segment) == segment.text = NoneText

\* faulty variant: the file is opened before the transcript is looked at
SrtRejectAfterOpen ==
    /\ srt_pc' = "returned"
    /\ srt_result' = "False"
    /\ srt_file' = << <<>> >>
    /\ UNCHANGED <<srt_i, srt_content, srt_io>>

\* lines 36-38: `return False` before any line is built or file opened
SrtReject ==
    /\ srt_pc' = "returned"
    /\ srt_result' = "False"
    /\ UNCHANGED <<srt_i, srt_content, srt_io, srt_file>>

Arrow == <<" ", "-", "-", ">", " ">>

\* line 52
TimeLine(start_time, end_time) ==
    format_srt_timestamp(start_time) \o Arrow
    \o format_srt_timestamp(end_time)

\* faulty variant: the blank line that closes a cue is left out
CueLinesNoBlank(i, start_time, end_time, text) ==
    << Decimal(i + 1), TimeLine(start_time, end_time), text >>

\* lines 51-54: the four lines appended for segment number i (from 0)
CueLines(i, start_time, end_time, text) ==
    << Decimal(i + 1), TimeLine(start_time, end_time), text, <<>> >>

\* "\n".join(lines)
RECURSIVE JoinNewline(_)
JoinNewline(lines) ==
    IF lines = <<>> THEN <<>>
    ELSE IF Len(lines) = 1 THEN lines[1]
    ELSE lines[1] \o <<"\n">> \o JoinNewline(Tail(lines))

\* lines 36-41
SrtCall ==
    /\ srt_pc = "idle"
    /\ \E t \in SrtTranscripts :
          /\ srt_transcript_data' = t
          /\ IF SrtIsInvalid(t)
             THEN SrtReject
             ELSE /\ srt_pc' = "loop"
                  /\ srt_i' = 0
                  /\ srt_content' = <<>>
                  /\ UNCHANGED <<srt_io, srt_file, srt_result>>
    /\ UNCHANGED <<chunker_vars, reel_vars,
                   image_vars, pipeline_vars, job_vars>>

\* one iteration of `for i, segment in enumerate(segments)` (lines 43-54)
SrtLoopStep ==
    /\ srt_pc = "loop"
    /\ srt_i < Len(srt_transcript_data.segments)
    /\ LET segment == srt_transcript_data.segments[srt_i + 1]
       IN  IF SrtStripRaises(segment)
           THEN /\ srt_pc' = "raised"
                /\ UNCHANGED <<srt_i, srt_content>>
           ELSE LET text == Strip(segment.text)
                IN  /\ srt_content' =
                          IF text = <<>> THEN srt_content
                          ELSE srt_content
                               \o CueLines(srt_i, segment.start,
                                           segment.end, text)
                    /\ srt_i' = srt_i + 1
                    /\ srt_pc' = "loop"
    /\ UNCHANGED <<srt_transcript_data, srt_io, srt_file, srt_result,
                   chunker_vars, reel_vars,
                   image_vars, pipeline_vars, job_vars>>

\* lines 56-69: the file is saved, or the error is caught
SrtWrite ==
    /\ srt_pc = "loop"
    /\ srt_i = Len(srt_transcript_data.segments)
    /\ \E outcome \in IoOutcomes :
          /\ srt_io' = outcome
          /\ srt_file' =
                CASE outcome = "ok" -> << JoinNewline(srt_content) >>
                  [] outcome = "open_error" -> srt_file
                  [] outcome = "write_error" -> << <<>> >>
          /\ srt_result' = IF outcome = "ok" THEN "True" ELSE "False"
    /\ srt_pc' = "returned"
    /\ UNCHANGED <<srt_transcript_data, srt_i, srt_content, chunker_vars,
                   reel_vars,
                   image_vars, pipeline_vars, job_vars>>

NextSrt == SrtCall \/ SrtLoopStep \/ SrtWrite

SpecSrt == Init /\ [][NextSrt]_vars

(***************************************************************************)
(* The subtitle file.                                                      *)
(***************************************************************************)
\* the number of cues built so far
CuesBuilt == Len(srt_content) \div 4

\* C11: the k-th cue that is emitted carries the index k, wherever the
\* skipped empty-text segments stand in the input.  The code numbers a cue
\* by the position of its segment in the input (line 51, str(i + 1)), so
\* the statement fails as soon as an empty-text segment precedes a cue.
C11_DenseIndices ==
    \A k \in 1..CuesBuilt : srt_content[4 * (k - 1) + 1] = Decimal(k)

\* the lines of a text: what stands between its line feeds
Lines(content) ==
    LET feeds == {p \in 1..Len(content) : content[p] = "\n"}
        Feed(k) ==
            IF k = 0 THEN 0
            ELSE IF k = Cardinality(feeds) + 1 THEN Len(content) + 1
            ELSE CHOOSE p \in feeds :
                    Cardinality({q \in feeds : q < p}) = k - 1
    IN  [k \in 1..(Cardinality(feeds) + 1) |->
            SubSeq(content, Feed(k - 1) + 1, Feed(k) - 1)]

Digits == {"0", "1", "2", "3", "4", "5", "6", "7", "8", "9"}

IsIndexLine(line) ==
    line # <<>> /\ \A p \in 1..Len(line) : line[p] \in Digits

HasCueText(segment) == ~IsBlankText(segment.text)

\* the segments that have a text once trimmed, in input order
CueSegments(segments) == SelectSeq(segments, HasCueText)

\* C12: the file that is written holds one block per segment whose trimmed
\* text is not empty, in segment order, and nothing for the others; a block
\* is an index line, the line "start --> end" of the segment's times and
\* the trimmed text; a single blank line stands between two blocks, and the
\* file ends with the line feed of its last text line.
C12_CueBlocks ==
    srt_result = "True" =>
        LET cues == CueSegments(srt_transcript_data.segments)
            lines == Lines(srt_file[1])
        IN  IF cues = <<>> THEN srt_file[1] = <<>>
            ELSE /\ Len(lines) = 4 * Len(cues)
                 /\ \A j \in 1..Len(cues) :
                       /\ IsIndexLine(lines[4 * j - 3])
                       /\ lines[4 * j - 2] =
                              TimeLine(cues[j].start, cues[j].end)
                       /\ lines[4 * j - 1] = Trimmed(cues[j].text)
                       /\ lines[4 * j] = <<>>

\* a file of two cues is written from a transcript that has a segment
\* without text and a segment with text to trim
C12_Witness ==
    /\ srt_result = "True"
    /\ Len(CueSegments(srt_transcript_data.segments)) = 2
    /\ Len(srt_transcript_data.segments) = 3
    /\ \E k \in 1..3 : srt_transcript_data.segments[k].text = PaddedWord

\* HH:MM:SS,mmm of a time given in whole milliseconds: whole hours on two
\* digits or more, minutes and seconds within 00..59, the milliseconds left
TimestampOf(ms) ==
    ZeroPadded(ms \div 3600000, 2) \o <<":">>
    \o ZeroPadded((ms \div 60000) % 60, 2) \o <<":">>
    \o ZeroPadded((ms \div 1000) % 60, 2) \o <<",">>
    \o ZeroPadded(ms % 1000, 3)

\* the segments that have given a cue so far
CuesSoFar ==
    IF srt_pc = "idle" \/ SrtIsInvalid(srt_transcript_data) THEN <<>>
    ELSE CueSegments(SubSeq(srt_transcript_data.segments, 1, srt_i))

\* C13: every time written on a cue is the HH:MM:SS,mmm of the time as it
\* is written in decimal (0.0, 1.234, 65.05, 3661.0, 360000.5): hours never
\* wrapped, minutes and seconds modulo 60, the fraction in milliseconds.
\* The code computes the milliseconds on the double, where 65.05 is
\* 65.0499999999999971..., and writes 00:01:05,049.
C13_Timestamps ==
    \A j \in 1..CuesBuilt :
        srt_content[4 * (j - 1) + 2] =
            TimestampOf(CuesSoFar[j].start.literal_ms) \o Arrow
            \o TimestampOf(CuesSoFar[j].end.literal_ms)

\* no transcript, an empty record, or a record without the key "segments"
IsUnusable(t) ==
    t = NoneTranscript \/ t = EmptyDict \/ "segments" \notin DOMAIN t

\* C14: called with no transcript, an empty record or a record without
\* "segments", generate_srt_from_transcript returns False, raises nothing
\* and neither creates nor writes the file; and when saving the file fails
\* the call returns False as well, not an exception.
C14_FailureByReturnValue ==
    /\ (srt_pc # "idle" /\ IsUnusable(srt_transcript_data)) =>
          /\ srt_pc = "returned"
          /\ srt_result = "False"
          /\ srt_file = <<>>
          /\ srt_io = "none"
    /\ srt_io \in {"open_error", "write_error"} =>
          /\ srt_pc = "returned"
          /\ srt_result = "False"

\* the call with a record that has no "segments" has returned
C14_Witness ==
    /\ srt_pc = "returned"
    /\ srt_transcript_data = [language |-> "es"]
    /\ srt_result = "False"

(***************************************************************************)
(* The image stage of scripts/run_pipeline.py (lines 154-180) and          *)
(* compose_video of podcast_to_reels/video_composer.py (lines 72-267).     *)
(* Times are whole time units: compose_video subtracts, compares and takes *)
(* maxima of them.  images_dir is the set of the files scene_{n}.png of    *)
(* the image directory, a file being the pair <<n, picture>> where picture *)
(* is the position of the scene whose prompt the picture was drawn from.   *)
(* A placement is the record of an ImageClip or TextClip with its start    *)
(* and duration.                                                           *)
(***************************************************************************)
\* subtitles_config = None
NoneConfig == [none |-> TRUE]

\* segment.get("start") or segment.get("end") is None
NoneTime == -1

\* (start_time, end_time) of a scene: a duration that is positive, zero or
\* negative, and starts that do not come in order
SceneTimes == { <<0, 3>>, <<5, 5>>, <<12, 10>>, <<2, 9>> }

ScenePool ==
    { [start_time |-> times[1], end_time |-> times[2],
       image_prompt |-> prompt] :
        times \in SceneTimes, prompt \in {NonePrompt, "prompt"} }

SceneLists == UNION { [1..n -> ScenePool] : n \in 0..MaxScenes }

\* main_audio_clip.duration
AudioDurations == { 4, 10 }

SubSegment(text, start, end) ==
    [text |-> text, start |-> start, end |-> end]

\* subtitles_config["original_transcript"]: missing, without "segments",
\* plain, with segments of no or negative duration, with a text of None,
\* with segments that lack a start or an end
OriginalTranscripts ==
    { NoneTranscript,
      [language |-> "es"],
      [segments |-> << SubSegment(PaddedWord, 0, 2), SubSegment(<<>>, 2, 3),
                       SubSegment(ThreeWords, 3, 5) >>],
      [segments |-> << SubSegment(PaddedWord, 0, 2),
                       SubSegment(ThreeWords, 4, 4),
                       SubSegment(PaddedWord, 6, 5) >>],
      [segments |-> << SubSegment(NoneText, 0, 2) >>],
      [segments |-> << SubSegment(PaddedWord, NoneTime, 2),
                       SubSegment(ThreeWords, 1, NoneTime),
                       SubSegment(PaddedWord, 2, 4) >>] }

\* subtitles_config["translated_transcript"]
TranslatedTranscripts ==
    { NoneTranscript,
      [segments |-> << SubSegment(<<"h", "i">>, 0, 2),
                       SubSegment(<<" ">>, 2, 3),
                       SubSegment(<<"y", "o">>, 3, 12) >>] }

SubtitleConfigs ==
    { NoneConfig }
    \cup { [type |-> type, original_transcript |-> original,
            translated_transcript |-> translated] :
             type \in {"none", "orig", "en", "both"},
             original \in OriginalTranscripts,
             translated \in TranslatedTranscripts }

\* what MoviePy does when the video is written: writes it, or raises
WriteOutcomes == { "ok", "raises" }

\* faulty variant: only scene_0.png is ever found
ImageExistsFirstOnly(dir, n) == n = 0 /\ \E file \in dir : file[1] = n

\* os.path.exists(os.path.join(images_dir, f"scene_{n}.png"))
ImageExists(dir, n) == \E file \in dir : file[1] = n

\* the picture held by the file scene_{n}.png
PictureOf(dir, n) == (CHOOSE file \in dir : file[1] = n)[2]

\* image_generator.py lines 47-48 and 85-86: the picture drawn from the
\* prompt is written to scene_{scene_index}.png, over a file of that name
GenerateImage(dir, picture, scene_index) ==
    {file \in dir : file[1] # scene_index} \cup {<<scene_index, picture>>}

\* faulty variant: the files are numbered by the placements kept so far
ImageFilenameRenumbered(i, kept) == kept

\* line 112: image_filename = f"scene_{i}.png"
ImageFilename(i, kept) == i

\* lines 125-127: ImageClip(image_path).set_duration(..).set_start(..)
ImagePlacement(i, scene, picture) ==
    [kind |-> "image", scene |-> i, picture |-> picture,
     start |-> scene.start_time,
     duration |-> scene.end_time - scene.start_time]

\* faulty variant: only a negative duration drops the scene
HasNoDurationStrict(scene) == scene.end_time - scene.start_time < 0

\* lines 120-121: scene_duration <= 0
HasNoDuration(scene) == scene.end_time - scene.start_time <= 0

\* clip.end
ClipEnd(clip) == clip.start + clip.duration

\* list.sort(key=lambda clip: clip.start): stable
RECURSIVE SortByStart(_)
SortByStart(clips) ==
    IF clips = <<>> THEN <<>>
    ELSE LET last == clips[Len(clips)]
             front == SortByStart(SubSeq(clips, 1, Len(clips) - 1))
             before == Cardinality({k \in 1..Len(front) :
                                       front[k].start <= last.start})
         IN  SubSeq(front, 1, before) \o <<last>>
             \o SubSeq(front, before + 1, Len(front))

Max(a, b) == IF a >= b THEN a ELSE b

\* faulty variant: the video is as long as the audio
FinalDurationOfAudio(duration, clips) == duration

\* line 167
FinalDuration(duration, clips) ==
    Max(duration,
        IF clips = <<>> THEN 0
        ELSE SetMax({ClipEnd(clips[k]) : k \in 1..Len(clips)}))

\* `if transcript`: neither None nor {}
IsTruthy(t) == "none" \notin DOMAIN t /\ DOMAIN t # {}

\* lines 190-194: the segments create_subtitle_textclips makes a clip of
IsShown(segment) ==
    /\ ~(Strip(segment.text) = <<>> \/ segment.start = NoneTime
         \/ segment.end = NoneTime)
    /\ ~(segment.end - segment.start <= 0)

\* lines 183-205; y_pos in hundredths of the height
create_subtitle_textclips(transcript, y_pos, color) ==
    IF ~IsTruthy(transcript) \/ "segments" \notin DOMAIN transcript
    THEN <<>>
    ELSE LET shown == SelectSeq(transcript.segments, IsShown)
         IN  [k \in 1..Len(shown) |->
                 [kind |-> "text", text |-> Strip(shown[k].text),
                  start |-> shown[k].start,
                  duration |-> shown[k].end - shown[k].start,
                  y_pos |-> y_pos, color |-> color]]

\* line 175: `subtitles_config and subtitles_config.get("type") != "none"`
WantsSubtitles(config) ==
    "none" \notin DOMAIN config /\ config.type # "none"

\* faulty variant: "both" shows the translation only
SubtitleSourcesBothAsEn(config) ==
    IF ~WantsSubtitles(config) THEN <<>>
    ELSE LET original == config.original_transcript
             translated == config.translated_transcript
         IN  IF config.type = "orig" /\ IsTruthy(original)
             THEN << <<original, 80, "white">> >>
             ELSE IF config.type \in {"en", "both"} /\ IsTruthy(translated)
             THEN << <<translated, 80, "white">> >>
             ELSE <<>>

\* lines 207-215: the transcripts handed to create_subtitle_textclips,
\* each with its y_pos and color, in the order of the calls
SubtitleSources(config) ==
    IF ~WantsSubtitles(config) THEN <<>>
    ELSE LET original == config.original_transcript
             translated == config.translated_transcript
         IN  IF config.type = "orig" /\ IsTruthy(original)
             THEN << <<original, 80, "white">> >>
             ELSE IF config.type = "en" /\ IsTruthy(translated)
             THEN << <<translated, 80, "white">> >>
             ELSE IF config.type = "both"
             THEN (IF IsTruthy(original)
                   THEN << <<original, 75, "yellow">> >> ELSE <<>>)
                  \o (IF IsTruthy(translated)
                      THEN << <<translated, 85, "white">> >> ELSE <<>>)
             ELSE <<>>

\* line 190: `.strip()` of a text that is None raises AttributeError
SubtitlesRaise(config) ==
    \E k \in 1..Len(SubtitleSources(config)) :
        LET transcript == SubtitleSources(config)[k][1]
        IN  /\ "segments" \in DOMAIN transcript
            /\ \E j \in 1..Len(transcript.segments) :
                  transcript.segments[j].text = NoneText

RECURSIVE Flatten(_)
Flatten(lists) ==
    IF lists = <<>> THEN <<>> ELSE Head(lists) \o Flatten(Tail(lists))

\* subtitle_clips after lines 207-215
SubtitleClips(config) ==
    Flatten([k \in 1..Len(SubtitleSources(config)) |->
                create_subtitle_textclips(SubtitleSources(config)[k][1],
                                          SubtitleSources(config)[k][2],
                                          SubtitleSources(config)[k][3])])

AudioFiles ==
    { [exists |-> FALSE, duration |-> 0] }
    \cup { [exists |-> TRUE, duration |-> d] : d \in AudioDurations }

\* run_pipeline.py lines 154-155: the image stage starts on the scenes of
\* the splitter, of which there is one at least (lines 127-129)
StartImageStage ==
    /\ reel_pc = "idle"
    /\ \E scene_list \in SceneLists \ {<<>>} : scenes_data' = scene_list
    /\ reel_pc' = "images"
    /\ image_i' = 0
    /\ generated_image_count' = 0
    /\ UNCHANGED <<images_dir, audio_exists, video_duration, compose_i,
                   image_clips, final_duration, all_video_clips,
                   subtitles_config, final_video, output_video,
                   compose_raised, compose_result, chunker_vars, srt_vars,
                   image_vars, pipeline_vars, job_vars>>

\* run_pipeline.py lines 156-171: one iteration of the image loop;
\* generate_image_from_prompt succeeds or fails
ImageStep ==
    /\ reel_pc = "images"
    /\ image_i < Len(scenes_data)
    /\ LET scene == scenes_data[image_i + 1]
       IN  IF scene.image_prompt = NonePrompt
           THEN UNCHANGED <<images_dir, generated_image_count>>
           ELSE \E success \in BOOLEAN :
                   IF success
                   THEN /\ images_dir' =
                              GenerateImage(images_dir, image_i, image_i)
                        /\ generated_image_count' =
                              generated_image_count + 1
                   ELSE UNCHANGED <<images_dir, generated_image_count>>
    /\ image_i' = image_i + 1
    /\ UNCHANGED <<reel_pc, scenes_data, audio_exists, video_duration,
                   compose_i, image_clips, final_duration, all_video_clips,
                   subtitles_config, final_video, output_video,
                   compose_raised, compose_result, chunker_vars, srt_vars,
                   image_vars, pipeline_vars, job_vars>>

\* run_pipeline.py lines 177-180: without a single image the run ends
ImageStageEnd ==
    /\ reel_pc = "images"
    /\ image_i = Len(scenes_data)
    /\ reel_pc' = IF generated_image_count = 0 /\ scenes_data # <<>>
                  THEN "exited" ELSE "ready"
    /\ UNCHANGED <<scenes_data, images_dir, image_i, generated_image_count,
                   audio_exists, video_duration, compose_i, image_clips,
                   final_duration, all_video_clips, subtitles_config,
                   final_video, output_video, compose_raised,
                   compose_result, chunker_vars, srt_vars,
                   image_vars, pipeline_vars, job_vars>>

\* compose_video, lines 101-110: the audio is looked up and loaded
ComposeEnter(scene_list, audio) ==
    /\ scenes_data' = scene_list
    /\ audio_exists' = audio.exists
    /\ IF ~audio.exists
       THEN /\ reel_pc' = "returned"
            /\ compose_result' = "False"
            /\ UNCHANGED <<video_duration, compose_i, image_clips>>
       ELSE /\ reel_pc' = "compose"
            /\ video_duration' = audio.duration
            /\ compose_i' = 0
            /\ image_clips' = <<>>
            /\ UNCHANGED compose_result
    /\ UNCHANGED <<images_dir, image_i, generated_image_count,
                   final_duration, all_video_clips, subtitles_config,
                   final_video, output_video, compose_raised, chunker_vars,
                   srt_vars,
                   image_vars, pipeline_vars, job_vars>>

\* run_pipeline.py lines 208-214: compose_video after the image stage
ComposeAfterImages ==
    /\ reel_pc = "ready"
    /\ \E audio \in AudioFiles : ComposeEnter(scenes_data, audio)

\* compose_video on a directory no image was written to: the run with
\* --skip_image_generation (run_pipeline.py lines 137-152), or a call of
\* compose_video from elsewhere with any scene list
ComposeWithoutImages ==
    /\ reel_pc = "idle"
    /\ \E scene_list \in SceneLists, audio \in AudioFiles :
          ComposeEnter(scene_list, audio)

\* one iteration of `for i, scene in enumerate(scenes_data)`, lines 111-151
ComposeLoopStep ==
    /\ reel_pc = "compose"
    /\ compose_i < Len(scenes_data)
    /\ LET scene == scenes_data[compose_i + 1]
           n == ImageFilename(compose_i, Len(image_clips))
       IN  image_clips' =
              IF ~ImageExists(images_dir, n) THEN image_clips
              ELSE IF HasNoDuration(scene) THEN image_clips
              ELSE Append(image_clips,
                          ImagePlacement(compose_i, scene,
                                         PictureOf(images_dir, n)))
    /\ compose_i' = compose_i + 1
    /\ UNCHANGED <<reel_pc, scenes_data, images_dir, image_i,
                   generated_image_count, audio_exists, video_duration,
                   final_duration, all_video_clips, subtitles_config,
                   final_video, output_video, compose_raised,
                   compose_result, chunker_vars, srt_vars,
                   image_vars, pipeline_vars, job_vars>>

\* faulty variant: the composite is built and written with no placement
NoImageClipsIgnored ==
    /\ compose_result' = "True"
    /\ final_video' = << [clips |-> <<>>, duration |-> video_duration] >>
    /\ output_video' = TRUE
    /\ UNCHANGED <<image_clips, final_duration, all_video_clips,
                   compose_raised>>

\* lines 153-155: `return False` when no placement was made
NoImageClips ==
    /\ compose_result' = "False"
    /\ UNCHANGED <<image_clips, final_duration, all_video_clips,
                   final_video, output_video, compose_raised>>

\* after the loop, lines 153-253: the placements are sorted, the duration
\* is fixed, the subtitle clips are appended to the list that both
\* image_clips and all_video_clips name (line 170), the composite is built
\* and written; any exception is caught and gives False (lines 255-260)
ComposeFinish ==
    /\ reel_pc = "compose"
    /\ compose_i = Len(scenes_data)
    /\ reel_pc' = "returned"
    /\ \E config \in SubtitleConfigs, outcome \in WriteOutcomes :
          /\ subtitles_config' = config
          /\ IF image_clips = <<>>
             THEN NoImageClips
             ELSE LET sorted == SortByStart(image_clips)
                      duration == FinalDuration(video_duration, sorted)
                      clips == sorted \o SubtitleClips(config)
                  IN  /\ final_duration' = duration
                      /\ IF SubtitlesRaise(config)
                         THEN /\ image_clips' = sorted
                              /\ all_video_clips' = sorted
                              /\ compose_raised' = TRUE
                              /\ compose_result' = "False"
                              /\ UNCHANGED <<final_video, output_video>>
                         ELSE /\ image_clips' = clips
                              /\ all_video_clips' = clips
                              /\ final_video' =
                                    << [clips |-> clips,
                                        duration |-> duration] >>
                              /\ compose_raised' = (outcome = "raises")
                              /\ output_video' = (outcome = "ok")
                              /\ compose_result' =
                                    IF outcome = "ok" THEN "True"
                                    ELSE "False"
    /\ UNCHANGED <<scenes_data, images_dir, image_i, generated_image_count,
                   audio_exists, video_duration, compose_i, chunker_vars,
                   srt_vars,
                   image_vars, pipeline_vars, job_vars>>

NextReel ==
    \/ StartImageStage
    \/ ImageStep
    \/ ImageStageEnd
    \/ ComposeAfterImages
    \/ ComposeWithoutImages
    \/ ComposeLoopStep
    \/ ComposeFinish

SpecReel == Init /\ [][NextReel]_vars

(***************************************************************************)
(* The composed video.                                                     *)
(***************************************************************************)
IsImage(clip) == clip.kind = "image"

IsText(clip) == clip.kind = "text"

\* the image placements and the subtitle entries of a list of placements
ImagePlacements(clips) == SelectSeq(clips, IsImage)

TextPlacements(clips) == SelectSeq(clips, IsText)

\* the positions, from 0, of the scenes of the call
SceneIndices == 0..(Len(scenes_data) - 1)

SceneAt(i) == scenes_data[i + 1]

HasImageFile(i) == \E file \in images_dir : file[1] = i

HasPositiveDuration(i) == SceneAt(i).end_time > SceneAt(i).start_time

\* the scenes that keep their place in the video
RemainingScenes ==
    {i \in SceneIndices : HasImageFile(i) /\ HasPositiveDuration(i)}

\* compose_video has gone through its scenes and returned
ComposeReturned == reel_pc = "returned" /\ audio_exists

\* C15: when compose_video returns, no image placement stands for a scene
\* whose end_time - start_time is zero or negative; every other scene that
\* has its image is placed at its start_time for end_time - start_time;
\* and the call returns True as soon as one image placement remains
\* (the audio file being there and no MoviePy call raising).
C15_NonPositiveDurationDropped ==
    ComposeReturned =>
        LET placed == ImagePlacements(image_clips)
        IN  /\ \A k \in 1..Len(placed) :
                  HasPositiveDuration(placed[k].scene)
            /\ \A i \in RemainingScenes :
                  \E k \in 1..Len(placed) :
                      /\ placed[k].scene = i
                      /\ placed[k].start = SceneAt(i).start_time
                      /\ placed[k].duration =
                            SceneAt(i).end_time - SceneAt(i).start_time
            /\ (placed # <<>> /\ ~compose_raised) =>
                  compose_result = "True"

\* a scene of no duration, whose image exists, was dropped and the other
\* scene made the video
C15_Witness ==
    /\ ComposeReturned
    /\ compose_result = "True"
    /\ \E i \in SceneIndices : HasImageFile(i) /\ ~HasPositiveDuration(i)
    /\ Len(ImagePlacements(image_clips)) = 1

\* C16: when compose_video returns, no image placement stands for a scene
\* whose image file is missing and each remaining scene (image found,
\* positive duration) has exactly one; if a scene remains the call returns
\* True (the audio file being there and no MoviePy call raising).
C16_MissingImageDropped ==
    ComposeReturned =>
        LET placed == ImagePlacements(image_clips)
        IN  /\ \A k \in 1..Len(placed) : HasImageFile(placed[k].scene)
            /\ \A i \in RemainingScenes :
                  Cardinality({k \in 1..Len(placed) :
                                  placed[k].scene = i}) = 1
            /\ Len(placed) = Cardinality(RemainingScenes)
            /\ (RemainingScenes # {} /\ ~compose_raised) =>
                  compose_result = "True"

\* the first scene had no image, the second made the video
C16_Witness ==
    /\ ComposeReturned
    /\ compose_result = "True"
    /\ Len(scenes_data) = 2
    /\ ~HasImageFile(0)
    /\ RemainingScenes = {1}

\* C17: when no scene remains (no scene at all, or each one without image
\* file or without positive duration) compose_video returns False, builds
\* no composite clip and writes no video.
C17_NoPlacementFails ==
    (ComposeReturned /\ RemainingScenes = {}) =>
        /\ compose_result = "False"
        /\ final_video = <<>>
        /\ ~output_video

\* two scenes, one with an image but no duration, one without image
C17_Witness ==
    /\ ComposeReturned
    /\ Len(scenes_data) = 2
    /\ HasImageFile(0) /\ ~HasPositiveDuration(0)
    /\ ~HasImageFile(1) /\ HasPositiveDuration(1)
    /\ compose_result = "False"

\* C18: the composite lasts max(audio duration, latest end of a remaining
\* scene): never less than the audio, never less than the end of a kept
\* image placement, whatever the dropped scenes and the subtitle entries.
C18_FinalDuration ==
    final_video # <<>> =>
        LET video == final_video[1]
            placed == ImagePlacements(video.clips)
        IN  /\ video.duration =
                  SetMax({video_duration}
                         \cup {SceneAt(i).end_time : i \in RemainingScenes})
            /\ video.duration >= video_duration
            /\ \A k \in 1..Len(placed) :
                  video.duration >= placed[k].start + placed[k].duration

\* a kept image placement ends after the audio, a dropped scene and a
\* subtitle entry end later still
C18_Witness ==
    /\ final_video # <<>>
    /\ compose_result = "True"
    /\ \E i \in RemainingScenes : SceneAt(i).end_time > video_duration
    /\ \E i \in SceneIndices \ RemainingScenes :
          SceneAt(i).end_time > final_video[1].duration
    /\ \E k \in 1..Len(final_video[1].clips) :
          LET clip == final_video[1].clips[k]
          IN  IsText(clip)
              /\ clip.start + clip.duration > final_video[1].duration

\* C19: the file scene_{n}.png of the image directory holds the picture of
\* scene n, and an image placement shows for its scene the picture of that
\* very scene, whichever scenes before it were skipped by the image stage
\* or dropped by compose_video.
C19_SceneImageJoin ==
    /\ \A file \in images_dir : file[2] = file[1]
    /\ \A k \in 1..Len(image_clips) :
          IsImage(image_clips[k]) =>
              image_clips[k].picture = image_clips[k].scene

\* the first scene was left without image and the second is in the video
C19_Witness ==
    /\ ComposeReturned
    /\ compose_result = "True"
    /\ ~HasImageFile(0)
    /\ \E k \in 1..Len(image_clips) :
          IsImage(image_clips[k]) /\ image_clips[k].scene = 1

HasSegmentList(t) == "none" \notin DOMAIN t /\ "segments" \in DOMAIN t

\* the transcripts the mode asks for: none without configuration or with
\* "none", the original with "orig", the translation with "en", the two
\* with "both"
ConfiguredTranscripts(config) ==
    IF "none" \in DOMAIN config THEN <<>>
    ELSE CASE config.type = "orig" -> <<config.original_transcript>>
           [] config.type = "en" -> <<config.translated_transcript>>
           [] config.type = "both" ->
                 <<config.original_transcript,
                   config.translated_transcript>>
           [] OTHER -> <<>>

HasTimes(segment) ==
    /\ segment.start # NoneTime
    /\ segment.end # NoneTime
    /\ segment.end > segment.start

EntryOf(segment) ==
    [text |-> Trimmed(segment.text), start |-> segment.start,
     duration |-> segment.end - segment.start]

\* one entry per segment of the transcript that has a text
EntriesOfTexts(t) ==
    IF ~HasSegmentList(t) THEN <<>>
    ELSE LET with_text == SelectSeq(t.segments, HasCueText)
         IN  [k \in 1..Len(with_text) |-> EntryOf(with_text[k])]

HasCueTextAndTimes(segment) == HasCueText(segment) /\ HasTimes(segment)

\* one entry per segment that has a text, a start and an end after it
EntriesOfTimedTexts(t) ==
    IF ~HasSegmentList(t) THEN <<>>
    ELSE LET timed == SelectSeq(t.segments, HasCueTextAndTimes)
         IN  [k \in 1..Len(timed) |-> EntryOf(timed[k])]

\* the subtitle entries of the composite: text, start and duration
SubtitleEntries ==
    LET texts == TextPlacements(final_video[1].clips)
    IN  [k \in 1..Len(texts) |->
            [text |-> texts[k].text, start |-> texts[k].start,
             duration |-> texts[k].duration]]

\* the same entries, each as many times, in any order
SameEntries(a, b) ==
    /\ Len(a) = Len(b)
    /\ \A k \in 1..Len(a) :
          Cardinality({j \in 1..Len(a) : a[j] = a[k]})
              = Cardinality({j \in 1..Len(b) : b[j] = a[k]})

\* in the composite no image placement comes after a subtitle entry
SubtitlesAfterImages ==
    LET clips == final_video[1].clips
    IN  \A j \in 1..Len(clips), k \in 1..Len(clips) :
            (IsText(clips[j]) /\ IsImage(clips[k])) => k < j

\* C20 as stated: the composite holds one subtitle entry (start of the
\* segment, end - start) for every segment with a trimmed text of each
\* transcript the mode asks for, and nothing else, after the images.
\* A segment whose end is not after its start has a text and no entry.
C20_EveryTextSegmentShown ==
    compose_result = "True" =>
        /\ SameEntries(SubtitleEntries,
              Flatten([k \in 1..Len(ConfiguredTranscripts(subtitles_config))
                         |-> EntriesOfTexts(
                                ConfiguredTranscripts(subtitles_config)[k])]))
        /\ SubtitlesAfterImages

\* C20, amended: the composite holds one subtitle entry (start of the
\* segment, end - start) for every segment, of each transcript the mode
\* asks for, that has a trimmed text, a start and an end after the start,
\* and nothing else: no entry without configuration or with "none", the
\* original only with "orig", the translation only with "en", the two with
\* "both"; and every subtitle entry comes after the image placements.
C20_SubtitleModes ==
    compose_result = "True" =>
        /\ SameEntries(SubtitleEntries,
              Flatten([k \in 1..Len(ConfiguredTranscripts(subtitles_config))
                         |-> EntriesOfTimedTexts(
                                ConfiguredTranscripts(subtitles_config)[k])]))
        /\ SubtitlesAfterImages

\* "both", with an original that has a segment of no duration and a
\* translation: one entry of the first, two of the second
C20_Witness ==
    /\ compose_result = "True"
    /\ "none" \notin DOMAIN subtitles_config
    /\ subtitles_config.type = "both"
    /\ HasSegmentList(subtitles_config.original_transcript)
    /\ \E k \in 1..Len(subtitles_config.original_transcript.segments) :
          LET segment == subtitles_config.original_transcript.segments[k]
          IN  HasCueText(segment) /\ segment.end = segment.start
    /\ HasSegmentList(subtitles_config.translated_transcript)
    /\ Len(SubtitleEntries) = 3

(***************************************************************************)
(* The size of the scenes of split_transcript_into_scenes.                 *)
(***************************************************************************)
\* a cut of the segments with text into consecutive runs: the set of the
\* positions after which a run ends and the next one begins; run k is the
\* set of the segments with k - 1 such positions before them
RunOf(cut, k) ==
    {i \in 1..Len(TextSegments) : Cardinality({b \in cut : b < i}) = k - 1}

\* the cuts into one run per returned scene such that every scene's
\* chunk_text is the joined texts of its run
SceneCuts ==
    {cut \in SUBSET (1..(Len(TextSegments) - 1)) :
        /\ Cardinality(cut) + 1 = Len(result)
        /\ \A k \in 1..Len(result) :
              result[k].chunk_text
                = SpaceJoined(TrimmedTexts(
                      SubSeq(TextSegments, SetMin(RunOf(cut, k)),
                             SetMax(RunOf(cut, k)))))}

\* the segment with text number i has words_per_chunk * 1.5 words or more
IsLarge(i) == 2 * NumWords(TextSegments[i].text) >= 3 * words_per_chunk

\* the segment with text number i is a scene by itself
IsAlone(cut, i) == \E k \in 1..Len(result) : RunOf(cut, k) = {i}

\* C26: scene size bound. When a call returns, every scene that merges two
\* or more segments has at most words_per_chunk + 5 words; a scene with
\* more words than that is made of a single segment.
C26_SceneSizeBound ==
    (pc = "returned" /\ TextSegments # <<>>) =>
        LET cuts == SceneCuts
        IN  /\ cuts # {}
            /\ \A cut \in cuts : \A k \in 1..Len(result) :
                  Cardinality(RunOf(cut, k)) >= 2 =>
                     NumWords(result[k].chunk_text) <= words_per_chunk + 5

\* a call has returned a scene of two segments with exactly
\* words_per_chunk + 5 words and a scene of one segment with more words
\* than that
C26_Witness ==
    /\ pc = "returned"
    /\ TextSegments # <<>>
    /\ \E cut \in SceneCuts : \E k \in 1..Len(result) :
          /\ Cardinality(RunOf(cut, k)) = 2
          /\ NumWords(result[k].chunk_text) = words_per_chunk + 5
    /\ \E cut \in SceneCuts : \E k \in 1..Len(result) :
          /\ Cardinality(RunOf(cut, k)) = 1
          /\ NumWords(result[k].chunk_text) > words_per_chunk + 5

max_retries == 2

\* line 73: `for attempt in range(max_retries + 1)`
Attempts == max_retries + 1

HttpResponse(status_code) == [kind |-> "http", status_code |-> status_code]

\* requests.exceptions.RequestException other than HTTPError
RequestFailure == [kind |-> "RequestException"]

\* the answers of the API: success, bad request, authentication, billing,
\* not found, rate limit, two server-side errors, no answer
ApiResponses ==
    { HttpResponse(code) : code \in {200, 400, 401, 403, 404, 429, 500, 503} }
    \cup { RequestFailure }

\* line 82: raise_for_status() raises HTTPError for 4xx and 5xx
RaisesHTTPError(response) ==
    response.kind = "http" /\ response.status_code >= 400

\* lines 92-104: `return False` without a retry
IsNotRetried(status_code) == status_code \in {401, 403, 400}

\* faulty variant: a server-side error is handled as a client-side one
IsServerErrorNever(status_code) == FALSE

\* line 106
IsServerError(status_code) == 500 <= status_code /\ status_code < 600

\* lines 107 and 117: `if attempt < max_retries`
HasRetryLeft(attempt_now) == attempt_now < max_retries

ImageReturn(value) ==
    /\ image_pc' = "returned"
    /\ image_result' = value

\* the end of an iteration that returns nothing: the next attempt, or the
\* end of the loop and the `return False` of line 130
NextAttempt ==
    IF attempt + 1 < Attempts
    THEN /\ attempt' = attempt + 1
         /\ UNCHANGED <<image_pc, image_result>>
    ELSE /\ ImageReturn("False")
         /\ UNCHANGED attempt

\* lines 31-48: the call, up to the loop; the prompt is None, "" or a
\* prompt, and the output directory exists, is created, or os.makedirs
\* raises OSError
ImageCall ==
    /\ image_pc = "idle"
    /\ \E key \in BOOLEAN, text \in {NonePrompt, "", "A prompt."},
          directory \in {"exists", "created", "OSError"} :
          /\ api_key' = key
          /\ prompt_arg' = text
          /\ IF ~key \/ text \in {NonePrompt, ""} \/ directory = "OSError"
             THEN ImageReturn("False")
             ELSE /\ image_pc' = "request"
                  /\ UNCHANGED image_result
    /\ attempt' = 0
    /\ responses' = <<>>
    /\ image_file' = "absent"
    /\ UNCHANGED <<chunker_vars, srt_vars, reel_vars, pipeline_vars,
                   job_vars>>

\* lines 73-128: one iteration of the loop
ImageAttempt ==
    /\ image_pc = "request"
    /\ attempt < Attempts
    /\ \E response \in ApiResponses, written \in BOOLEAN :
          /\ responses' = Append(responses, response)
          /\ IF response.kind = "http"
             THEN IF ~RaisesHTTPError(response)
                  THEN \* lines 85-88, or the IOError of lines 123-125
                       /\ image_file' =
                             IF written THEN "written" ELSE image_file
                       /\ ImageReturn(IF written THEN "True" ELSE "False")
                       /\ UNCHANGED attempt
                  ELSE /\ UNCHANGED image_file
                       /\ IF IsNotRetried(response.status_code)
                          THEN ImageReturn("False") /\ UNCHANGED attempt
                          ELSE IF IsServerError(response.status_code)
                          THEN IF HasRetryLeft(attempt)
                               THEN NextAttempt
                               ELSE ImageReturn("False") /\ UNCHANGED attempt
                          ELSE \* lines 113-114: other client-side errors
                               ImageReturn("False") /\ UNCHANGED attempt
             ELSE \* lines 115-122
                  /\ UNCHANGED image_file
                  /\ IF HasRetryLeft(attempt)
                     THEN NextAttempt
                     ELSE ImageReturn("False") /\ UNCHANGED attempt
    /\ UNCHANGED <<api_key, prompt_arg, chunker_vars, srt_vars, reel_vars,
                   pipeline_vars, job_vars>>

NextImage == ImageCall \/ ImageAttempt

SpecImage == Init /\ [][NextImage]_vars

\* the function runs on: a call that has started makes its next step
SpecImageFair == SpecImage /\ WF_vars(NextImage)

(***************************************************************************)
(* main() of scripts/run_pipeline.py: the translation of the transcript    *)
(* (lines 78-121), the stages between it and the composition, which end    *)
(* the run when they yield no scene or no image (lines 126-180), and the   *)
(* subtitle configuration handed to compose_video (lines 188-215).         *)
(***************************************************************************)
\* scene_splitter.py line 71: the default of words_per_chunk
DefaultWordsPerChunk == 20

Hola == <<"h", "o", "l", "a">>

\* segment texts of the transcript: None, "", and two texts
PipelineTexts == { NoneText, <<>>, Hola, PaddedWord }

\* original_transcript.json: dicts with a segment list, in English, in
\* Spanish or without a "language" key, and a dict without segments
PipelineTranscripts ==
    { [language |-> "es"] }
    \cup { TranscriptDict(language, Segments(texts, "ascending")) :
             texts \in TextSeqs(PipelineTexts, MaxPipelineSegs),
             language \in {"en", "es", "absent"} }

\* what translate_text returns: None (no key, API error), "", a translation
TranslateOutcomes == { NoneText, <<>>, <<"h", "i">> }

\* the call of translate_text that was not made
NotCalled == <<"not called">>

\* line 78: original_transcript_data.get("language", "unknown")
DetectedLanguage(t) ==
    IF "language" \in DOMAIN t THEN t.language ELSE "unknown"

\* `if text`: neither None nor ""
IsTruthyText(text) == text # NoneText /\ text # <<>>

\* line 85: original_transcript_data.get("segments")
HasSegmentsToTranslate(t) == "segments" \in DOMAIN t /\ t.segments # <<>>

\* faulty variant: a segment whose translation failed is left out
AppendTranslatedOrSkip(segments, segment, translated_text) ==
    IF IsTruthyText(translated_text)
    THEN Append(segments, [segment EXCEPT !.text = translated_text])
    ELSE segments

\* lines 95-99
AppendTranslated(segments, segment, translated_text) ==
    IF IsTruthyText(translated_text)
    THEN Append(segments, [segment EXCEPT !.text = translated_text])
    ELSE Append(segments, segment)

\* line 107: " ".join(...) raises TypeError on a text that is None
JoinRaises(segments) ==
    \E k \in 1..Len(segments) : segments[k].text = NoneText

\* lines 104-108
TranslatedTranscript(segments) ==
    [language |-> "en", segments |-> segments,
     text |-> JoinSpace([k \in 1..Len(segments) |-> segments[k].text])]

\* faulty variant: "both" keeps its two tracks whatever the language
SubConfigBothKept(subtitles, original, translated, language) ==
    CASE subtitles = "orig" ->
            [type |-> "orig", original_transcript |-> original]
      [] subtitles = "en" ->
            [type |-> "en",
             translated_transcript |->
                 IF IsTruthy(translated) THEN translated ELSE original]
      [] subtitles = "both" ->
            [type |-> "both", original_transcript |-> original,
             translated_transcript |-> translated]
      [] OTHER -> [type |-> subtitles]

\* lines 188-206
SubConfig(subtitles, original, translated, language) ==
    CASE subtitles = "orig" ->
            [type |-> "orig", original_transcript |-> original]
      [] subtitles = "en" ->
            [type |-> "en",
             translated_transcript |->
                 IF IsTruthy(translated) THEN translated ELSE original]
      [] subtitles = "both" ->
            IF language = "en"
            THEN [type |-> "en", translated_transcript |-> original]
            ELSE [type |-> "both", original_transcript |-> original,
                  translated_transcript |-> translated]
      [] OTHER -> [type |-> subtitles]

\* video_composer.py lines 175-177: subtitles_config.get(...) of the three
\* keys, None for a key that is missing
ConfigRead(config) ==
    [type |-> config.type,
     original_transcript |->
         IF "original_transcript" \in DOMAIN config
         THEN config.original_transcript ELSE NoneTranscript,
     translated_transcript |->
         IF "translated_transcript" \in DOMAIN config
         THEN config.translated_transcript ELSE NoneTranscript]

\* lines 75-89 and 112-121: the transcript is read and the translation
\* stage chosen
PipelineStart ==
    /\ pipeline_pc = "idle"
    /\ \E subtitles \in {"none", "orig", "en", "both"},
          t \in PipelineTranscripts :
          /\ args_subtitles' = subtitles
          /\ original_transcript_data' = t
          /\ detected_language' = DetectedLanguage(t)
          /\ IF subtitles \in {"en", "both"} /\ DetectedLanguage(t) # "en"
             THEN /\ translated_transcript_data' = NoneTranscript
                  /\ pipeline_pc' = IF HasSegmentsToTranslate(t)
                                    THEN "translate" ELSE "split"
             ELSE IF subtitles \in {"en", "both"}
             THEN /\ translated_transcript_data' = t
                  /\ pipeline_pc' = "split"
             ELSE /\ translated_transcript_data' = NoneTranscript
                  /\ pipeline_pc' = "split"
    /\ translate_i' = 0
    /\ translate_results' = <<>>
    /\ translated_segments' = <<>>
    /\ UNCHANGED <<sub_config, chunker_vars, srt_vars, reel_vars,
                   image_vars, job_vars>>

\* lines 90-102: one iteration of the translation loop
TranslateSegment ==
    /\ pipeline_pc = "translate"
    /\ translate_i < Len(original_transcript_data.segments)
    /\ LET segment == original_transcript_data.segments[translate_i + 1]
       IN  IF IsTruthyText(segment.text)
           THEN \E translated_text \in TranslateOutcomes :
                   /\ translated_segments' =
                         AppendTranslated(translated_segments, segment,
                                          translated_text)
                   /\ translate_results' =
                         Append(translate_results, translated_text)
           ELSE /\ translated_segments' =
                      Append(translated_segments, segment)
                /\ translate_results' = Append(translate_results, NotCalled)
    /\ translate_i' = translate_i + 1
    /\ UNCHANGED <<pipeline_pc, args_subtitles, original_transcript_data,
                   detected_language, translated_transcript_data,
                   sub_config, chunker_vars, srt_vars, reel_vars,
                   image_vars, job_vars>>

\* lines 104-111: the translated transcript
TranslateEnd ==
    /\ pipeline_pc = "translate"
    /\ translate_i = Len(original_transcript_data.segments)
    /\ IF JoinRaises(translated_segments)
       THEN /\ pipeline_pc' = "raised"
            /\ UNCHANGED translated_transcript_data
       ELSE /\ pipeline_pc' = "split"
            /\ translated_transcript_data' =
                  TranslatedTranscript(translated_segments)
    /\ UNCHANGED <<args_subtitles, original_transcript_data,
                   detected_language, translate_i, translate_results,
                   translated_segments, sub_config, chunker_vars, srt_vars,
                   reel_vars, image_vars, job_vars>>

\* lines 126-180: the scenes are split from the original transcript and the
\* images generated; the run ends without scenes and without images, and
\* the splitter raises on a text that is None
SplitAndGenerate ==
    /\ pipeline_pc = "split"
    /\ IF /\ ~IsMalformed(original_transcript_data)
          /\ \E k \in 1..Len(original_transcript_data.segments) :
                StripRaises(original_transcript_data.segments[k])
       THEN pipeline_pc' = "raised"
       ELSE IF ScenesWhenPromptsSucceed(original_transcript_data,
                                        DefaultWordsPerChunk) = <<>>
       THEN pipeline_pc' = "exited"
       ELSE \E generated_images \in BOOLEAN :
               pipeline_pc' = IF generated_images THEN "compose"
                              ELSE "exited"
    /\ UNCHANGED <<args_subtitles, original_transcript_data,
                   detected_language, translate_i, translate_results,
                   translated_segments, translated_transcript_data,
                   sub_config, chunker_vars, srt_vars, reel_vars,
                   image_vars, job_vars>>

\* lines 188-215: the configuration compose_video is called with
ConfigureSubtitles ==
    /\ pipeline_pc = "compose"
    /\ sub_config' = SubConfig(args_subtitles, original_transcript_data,
                               translated_transcript_data,
                               detected_language)
    /\ pipeline_pc' = "composing"
    /\ UNCHANGED <<args_subtitles, original_transcript_data,
                   detected_language, translate_i, translate_results,
                   translated_segments, translated_transcript_data,
                   chunker_vars, srt_vars, reel_vars, image_vars, job_vars>>

NextPipeline ==
    \/ PipelineStart
    \/ TranslateSegment
    \/ TranslateEnd
    \/ SplitAndGenerate
    \/ ConfigureSubtitles

SpecPipeline == Init /\ [][NextPipeline]_vars

(***************************************************************************)
(* The web job: SubmitVideoJobView and UpdateProjectSettingsView of        *)
(* webapp/api/views.py and process_video_pipeline_task of                  *)
(* webapp/api/tasks.py, on one VideoProject.  A view and the task each     *)
(* load the row into an object of their own; save() writes every field of  *)
(* the object back to the row.  The steps of the views and of the task     *)
(* interleave between two accesses to the database.                        *)
(***************************************************************************)
\* scenes_data = None (null=True in models.py line 49)
NoneScenes == << [none |-> TRUE] >>

\* scenes as the splitter returns them: every prompt generated, or the
\* prompt of the second scene None
ScenesWithPrompts ==
    << Scene(Hola, 0, 2, GeneratedPrompt),
       Scene(PaddedWord, 2, 4, GeneratedPrompt) >>

ScenesWithNullPrompt ==
    << Scene(Hola, 0, 2, GeneratedPrompt),
       Scene(PaddedWord, 2, 4, NonePrompt) >>

\* scenes_with_prompts.json, which run_pipeline.py writes for one scene at
\* least (lines 127-133)
GeneratedSceneLists == { ScenesWithPrompts, ScenesWithNullPrompt }

\* `not video_project.scenes_data`: None or []
HasScenes(project) ==
    project.scenes_data # NoneScenes /\ project.scenes_data # <<>>

\* views.py lines 27-33: VideoProject.objects.create(..., status='PENDING')
NewProject ==
    [status |-> "PENDING", scenes_data |-> NoneScenes,
     positive_style_keywords |-> "", error_message |-> "None",
     celery_task_id |-> "None", job_output_path_segment |-> "None"]

\* the bodies of the requests to UpdateProjectSettingsView: a choice that
\* the serializer rejects, keywords only, and scenes_data that is null, [],
\* the reviewed scenes, the reviewed scenes with a prompt that is null
SettingsRequests ==
    { [image_style_preference |-> "not a choice"],
      [positive_style_keywords |-> "vivid"],
      [scenes_data |-> NoneScenes],
      [scenes_data |-> <<>>],
      [scenes_data |-> ScenesWithPrompts],
      [scenes_data |-> ScenesWithNullPrompt] }

\* serializer.is_valid(): image_style_preference is a choice field
\* (serializers.py lines 37-43, models.py line 35)
IsValid(data) == "image_style_preference" \notin DOMAIN data

\* serializer.save() with partial=True: the fields of the request are set
\* on the object
WithSettings(project, data) ==
    [field \in DOMAIN project |->
        IF field \in DOMAIN data THEN data[field] ELSE project[field]]

\* views.py lines 76-77
ReviewStatus(project) ==
    IF project.status \in {"PENDING", "AWAITING_USER_INPUT",
                           "SPLITTING_SCENES"}
    THEN [project EXCEPT !.status = "AWAITING_USER_INPUT"]
    ELSE project

\* views.py line 46: the only call of the task in the repository
initial_run == TRUE

\* tasks.py lines 88-89: `style_prefix + current_prompt` raises TypeError
\* on a prompt that is None
StyledPromptRaises(scene_list) ==
    \E k \in 1..Len(scene_list) : scene_list[k].image_prompt = NonePrompt

Failed(project, message) ==
    [project EXCEPT !.status = "FAILED", !.error_message = message]

\* video_project.save()
Save(project) == stored_project' = project

TaskEnds(outcome, exception) ==
    /\ task_pc' = "ended"
    /\ task_outcome' = outcome
    /\ task_exception' = exception

TaskGoes(position) ==
    /\ task_pc' = position
    /\ UNCHANGED <<task_outcome, task_exception>>

other_vars == <<chunker_vars, srt_vars, reel_vars, image_vars,
                pipeline_vars>>

submit_vars == <<submit_pc, submitted_project>>

update_vars == <<update_pc, settings_project, request_data, updates_made>>

\* views.py lines 27-33
SubmitCreate ==
    /\ submit_pc = "idle"
    /\ submitted_project' = NewProject
    /\ Save(NewProject)
    /\ submit_pc' = "created"
    /\ UNCHANGED <<task_pc, video_project, task_outcome, task_exception,
                   update_vars, other_vars>>

\* views.py lines 39-47 and 58-61: the task is queued, or delay() raises
SubmitDelay ==
    /\ submit_pc = "created"
    /\ \E queued \in BOOLEAN :
          IF queued
          THEN /\ task_pc' = "queued"
               /\ submit_pc' = "queued"
               /\ UNCHANGED <<submitted_project, stored_project>>
          ELSE /\ submitted_project' =
                     Failed(submitted_project, "Failed to submit job")
               /\ Save(submitted_project')
               /\ submit_pc' = "done"
               /\ UNCHANGED task_pc
    /\ UNCHANGED <<video_project, task_outcome, task_exception,
                   update_vars, other_vars>>

\* views.py lines 48-49
SubmitSave ==
    /\ submit_pc = "queued"
    /\ submitted_project' =
          [submitted_project EXCEPT !.celery_task_id = "task"]
    /\ Save(submitted_project')
    /\ submit_pc' = "done"
    /\ UNCHANGED <<task_pc, video_project, task_outcome, task_exception,
                   update_vars, other_vars>>

\* views.py lines 69-71: a request for the project arrives
UpdateLoad ==
    /\ update_pc = "idle"
    /\ "none" \notin DOMAIN stored_project
    /\ updates_made < MaxUpdates
    /\ \E data \in SettingsRequests : request_data' = data
    /\ settings_project' = stored_project
    /\ updates_made' = updates_made + 1
    /\ update_pc' = "loaded"
    /\ UNCHANGED <<stored_project, submit_vars, task_pc, video_project,
                   task_outcome, task_exception, other_vars>>

\* views.py lines 72-73 and 89
UpdateSerializerSave ==
    /\ update_pc = "loaded"
    /\ IF IsValid(request_data)
       THEN /\ settings_project' =
                  WithSettings(settings_project, request_data)
            /\ Save(settings_project')
            /\ update_pc' = "saved"
       ELSE /\ update_pc' = "idle"
            /\ UNCHANGED <<settings_project, stored_project>>
    /\ UNCHANGED <<request_data, updates_made, submit_vars, task_pc,
                   video_project, task_outcome, task_exception, other_vars>>

\* views.py lines 76-81
UpdateStatusSave ==
    /\ update_pc = "saved"
    /\ settings_project' = ReviewStatus(settings_project)
    /\ Save(settings_project')
    /\ update_pc' = "idle"
    /\ UNCHANGED <<request_data, updates_made, submit_vars, task_pc,
                   video_project, task_outcome, task_exception, other_vars>>

\* tasks.py lines 25-29
TaskStart ==
    /\ task_pc = "queued"
    /\ video_project' =
          [stored_project EXCEPT
              !.status = IF initial_run /\ @ = "PENDING"
                         THEN "PROCESSING" ELSE @,
              !.celery_task_id = "task"]
    /\ Save(video_project')
    /\ TaskGoes("makedirs")
    /\ UNCHANGED <<submit_vars, update_vars, other_vars>>

\* tasks.py lines 37-41: os.makedirs succeeds or raises OSError
TaskMakeDirs ==
    /\ task_pc = "makedirs"
    /\ \E made \in BOOLEAN :
          IF made
          THEN /\ video_project' =
                     [video_project EXCEPT
                         !.job_output_path_segment = "id"]
               /\ Save(video_project')
               /\ TaskGoes("stage")
          ELSE /\ TaskEnds("raised", "OSError")
               /\ UNCHANGED <<video_project, stored_project>>
    /\ UNCHANGED <<submit_vars, update_vars, other_vars>>

\* tasks.py lines 45-47 and 78-83: the stage the task goes on with
TaskStage ==
    /\ task_pc = "stage"
    /\ IF initial_run /\ ~HasScenes(video_project)
       THEN /\ video_project' =
                  [video_project EXCEPT !.status = "SPLITTING_SCENES"]
            /\ Save(video_project')
            /\ TaskGoes("scene_gen")
       ELSE IF ~HasScenes(video_project)
       THEN /\ video_project' =
                  Failed(video_project, "Scenes data missing")
            /\ Save(video_project')
            /\ TaskEnds("raised", "Exception")
       ELSE /\ video_project' =
                  [video_project EXCEPT !.status = "GENERATING_IMAGES"]
            /\ Save(video_project')
            /\ TaskGoes("styled_prompts")
    /\ UNCHANGED <<submit_vars, update_vars, other_vars>>

\* tasks.py lines 59-76: the first run of run_pipeline.py gives exit code 0
\* and the scenes file; or another exit code or no file; or Popen or
\* communicate raises
TaskSceneGen ==
    /\ task_pc = "scene_gen"
    /\ \E outcome \in {"scenes", "failed", "raises"}, scene_list \in GeneratedSceneLists :
          IF outcome = "scenes"
          THEN /\ video_project' =
                     [video_project EXCEPT
                         !.scenes_data = scene_list,
                         !.status = "AWAITING_USER_INPUT"]
               /\ Save(video_project')
               /\ TaskEnds("returned", "none")
          ELSE /\ video_project' =
                     Failed(video_project, "Error in scene generation stage")
               /\ Save(video_project')
               /\ TaskEnds("raised", "Exception")
    /\ UNCHANGED <<submit_vars, update_vars, other_vars>>

\* tasks.py lines 85-102: the styled prompts are built and written
TaskStyledPrompts ==
    /\ task_pc = "styled_prompts"
    /\ IF StyledPromptRaises(video_project.scenes_data)
       THEN TaskEnds("raised", "TypeError")
       ELSE \E written \in BOOLEAN :
               IF written THEN TaskGoes("video_gen")
               ELSE TaskEnds("raised", "OSError")
    /\ UNCHANGED <<video_project, stored_project, submit_vars, update_vars,
                   other_vars>>

\* tasks.py lines 118-132: the second run of run_pipeline.py gives exit
\* code 0; or another exit code; or Popen or communicate raises
TaskVideoGen ==
    /\ task_pc = "video_gen"
    /\ \E outcome \in {"ok", "failed", "raises"} :
          /\ video_project' =
                IF outcome = "ok"
                THEN [video_project EXCEPT !.status = "COMPLETED",
                                           !.error_message = "None"]
                ELSE Failed(video_project,
                            "Error in image/video generation stage")
          /\ Save(video_project')
          /\ IF outcome = "raises"
             THEN TaskEnds("raised", "Exception")
             ELSE TaskEnds("returned", "none")
    /\ UNCHANGED <<submit_vars, update_vars, other_vars>>

SubmitStep == SubmitCreate \/ SubmitDelay \/ SubmitSave

UpdateStep == UpdateLoad \/ UpdateSerializerSave \/ UpdateStatusSave

TaskStep ==
    \/ TaskStart
    \/ TaskMakeDirs
    \/ TaskStage
    \/ TaskSceneGen
    \/ TaskStyledPrompts
    \/ TaskVideoGen

NextJob == SubmitStep \/ UpdateStep \/ TaskStep

SpecJob == Init /\ [][NextJob]_vars

\* the view answers its request, the worker runs the queued task and each
\* run of the pipeline ends
SpecJobFair == SpecJob /\ WF_vars(SubmitStep) /\ WF_vars(TaskStep)

(***************************************************************************)
(* The subtitle configuration and the translated transcript of the         *)
(* pipeline.                                                               *)
(***************************************************************************)
\* the subtitle tracks compose_video renders for the configuration of the
\* pipeline: the transcripts it hands to create_subtitle_textclips
RenderedTracks == SubtitleSources(ConfigRead(sub_config))

\* C21: "both" on an English source. When the pipeline calls compose_video
\* for --subtitles both and the detected language is "en", the
\* configuration has type "en", the original transcript as
\* translated_transcript and no original_transcript, and one subtitle track
\* is rendered, of the original transcript; when the detected language is
\* not "en", the configuration has type "both" with the original transcript
\* and a translated transcript that differs from it, and two tracks are
\* rendered.
C21_BothOnEnglishIsOneTrack ==
    (pipeline_pc = "composing" /\ args_subtitles = "both") =>
        IF detected_language = "en"
        THEN /\ DOMAIN sub_config = {"type", "translated_transcript"}
             /\ sub_config.type = "en"
             /\ sub_config.translated_transcript = original_transcript_data
             /\ Len(RenderedTracks) = 1
             /\ RenderedTracks[1][1] = original_transcript_data
        ELSE /\ DOMAIN sub_config
                  = {"type", "original_transcript", "translated_transcript"}
             /\ sub_config.type = "both"
             /\ sub_config.original_transcript = original_transcript_data
             /\ "none" \notin DOMAIN sub_config.translated_transcript
             /\ sub_config.translated_transcript
                  # sub_config.original_transcript
             /\ Len(RenderedTracks) = 2
             /\ RenderedTracks[1][1] = original_transcript_data
             /\ RenderedTracks[2][1] = translated_transcript_data

\* compose_video is called for "both" on an English transcript of two
\* segments
C21_Witness ==
    /\ pipeline_pc = "composing"
    /\ args_subtitles = "both"
    /\ detected_language = "en"
    /\ Len(original_transcript_data.segments) = 2
    /\ sub_config.type = "en"
    /\ Len(RenderedTracks) = 1

\* the translation loop has built the translated transcript
IsTranslationBuilt ==
    /\ pipeline_pc \in {"split", "exited", "compose", "composing"}
    /\ args_subtitles \in {"en", "both"}
    /\ detected_language # "en"
    /\ "none" \notin DOMAIN translated_transcript_data

\* the translation of segment k failed, or the segment has no text
KeepsOriginalText(k) ==
    translate_results[k] \in {NotCalled, NoneText, <<>>}

\* C22: the translated transcript is aligned with the original. Once the
\* pipeline has built the translated transcript, it has the language "en",
\* as many segments as the original and, at every index, the start and end
\* of the original segment; the text of a segment is its translation, and
\* the original text when the translation failed or returned nothing or the
\* segment has no text.
C22_TranslationAligned ==
    IsTranslationBuilt =>
        LET original == original_transcript_data.segments
            translated == translated_transcript_data.segments
        IN  /\ translated_transcript_data.language = "en"
            /\ Len(translated) = Len(original)
            /\ Len(translate_results) = Len(original)
            /\ \A k \in 1..Len(original) :
                  /\ DOMAIN translated[k] = DOMAIN original[k]
                  /\ translated[k].start = original[k].start
                  /\ translated[k].end = original[k].end
                  /\ translated[k].text
                       = IF KeepsOriginalText(k) THEN original[k].text
                         ELSE translate_results[k]

\* a translated transcript of two segments: the translation of the first
\* failed, the second is translated
C22_Witness ==
    /\ IsTranslationBuilt
    /\ Len(original_transcript_data.segments) = 2
    /\ translate_results[1] = NoneText
    /\ translate_results[2] = <<"h", "i">>
    /\ translated_transcript_data.segments[1].text = Hola
    /\ translated_transcript_data.segments[2].text = <<"h", "i">>

(***************************************************************************)
(* The retries of generate_image_from_prompt.                              *)
(***************************************************************************)
\* the API answered the k-th request with the status code
Answered(k, status_code) ==
    k <= Len(responses) /\ responses[k] = HttpResponse(status_code)

\* every request made so far was answered with a server-side error
OnlyServerErrors ==
    /\ responses # <<>>
    /\ \A k \in 1..Len(responses) :
          /\ responses[k].kind = "http"
          /\ responses[k].status_code \in 500..599

\* at most max_retries + 1 requests; a call that has returned after
\* nothing but server-side errors has made max_retries + 1 requests, has
\* returned False and has written no file
C24_ThreeAttempts ==
    /\ Len(responses) <= 3
    /\ (image_pc = "returned" /\ OnlyServerErrors) =>
          /\ Len(responses) = 3
          /\ image_result = "False"
          /\ image_file = "absent"

\* C24: bounded retry. A call whose every attempt fails with a server-side
\* error makes exactly 3 requests and then returns False; no call makes a
\* 4th request, and every call that has started its requests returns.
C24_BoundedRetry ==
    []C24_ThreeAttempts /\ (image_pc = "request" ~> image_pc = "returned")

\* a call has returned False after the answers 500, 503, 500
C24_Witness ==
    /\ image_pc = "returned"
    /\ Len(responses) = 3
    /\ Answered(1, 500)
    /\ Answered(2, 503)
    /\ Answered(3, 500)
    /\ image_result = "False"

\* C25: rate-limit errors are retried. A call whose first request is
\* answered with the rate-limit status 429 does not return before a second
\* request, and when that one succeeds and the image is written the call
\* returns True after exactly 2 requests.
C25_RateLimitRetried ==
    (image_pc = "returned" /\ Answered(1, 429)) =>
        /\ Len(responses) >= 2
        /\ (Answered(2, 200) /\ image_file = "written") =>
              (Len(responses) = 2 /\ image_result = "True")

(***************************************************************************)
(* The status of the web job.                                              *)
(***************************************************************************)
IsCreated == "none" \notin DOMAIN stored_project

\* C23: a null image_prompt is tolerated. The styled-prompt stage of the
\* web task does not raise on a scene list that has a scene whose
\* image_prompt is None.
C23_NullPromptTolerated ==
    (/\ task_pc = "ended"
     /\ video_project.status = "GENERATING_IMAGES"
     /\ StyledPromptRaises(video_project.scenes_data)) =>
        task_outcome # "raised"

\* C28: a task that raises leaves the project FAILED. When the task has
\* ended by raising, the stored project has status FAILED and an error
\* message; once the task has ended, the stored status is none of
\* PROCESSING, SPLITTING_SCENES, GENERATING_IMAGES.
C28_RaisedMeansFailed ==
    task_pc = "ended" =>
        /\ task_outcome = "raised" =>
              /\ stored_project.status = "FAILED"
              /\ stored_project.error_message # "None"
        /\ stored_project.status
             \notin {"PROCESSING", "SPLITTING_SCENES", "GENERATING_IMAGES"}

\* C29: awaiting review implies scenes. In every state of the job a stored
\* status of AWAITING_USER_INPUT comes with stored scenes_data that is
\* neither null nor empty.
C29_AwaitingHasScenes ==
    (IsCreated /\ stored_project.status = "AWAITING_USER_INPUT") =>
        HasScenes(stored_project)

\* C30: every submitted job reaches a terminal status. Once the project
\* has been created, its stored status eventually is COMPLETED or FAILED.
C30_EventuallyTerminal ==
    IsCreated ~>
        (IsCreated /\ stored_project.status \in {"COMPLETED", "FAILED"})

====
